---- MODULE Spec2Model ----
(***************************************************************************)
(* Model of the tweet-posting layer of gpt-enduser (src/src/index.ts):     *)
(* postTweet with its global rate limit and duplicate guard, and the       *)
(* mention-reply workflow (checkAndReplyToMentions, getRecentMentions,     *)
(* replyToMention, markMentionAsReplied) that calls it.                    *)
(*                                                                         *)
(* Every `await` on the key-value store or on the network is one atomic    *)
(* action: the store operation takes effect at that instant and the        *)
(* synchronous code that follows it, up to the next such await, runs in    *)
(* the same step.  Invocations interleave only at those awaits, as         *)
(* concurrent Worker invocations sharing one KV namespace do.  Awaits that *)
(* touch no shared state (crypto.subtle.digest, the HMAC signature, the AI *)
(* call) are folded into the neighbouring step.                            *)
(***************************************************************************)
EXTENDS Integers, Sequences, FiniteSets

VARIABLES
    now,          \* Date.now(): the wall clock, in milliseconds
    kv,           \* env.NEWS_CACHE: key -> entry
    pc,           \* per invocation: the await it is suspended at
    job,          \* per invocation: which caller runs ("tweet" | "mentions")
    text,         \* postTweet parameter `text`
    replyTo,      \* postTweet parameter `replyToTweetId`
    queue,        \* checkAndReplyToMentions: the mentions still to process
    result,       \* the value postTweet returned
    repliedList,  \* markMentionAsReplied: local `repliedList`
    netCalls,     \* history: fetch calls to the tweet endpoint by this postTweet call
    checkedAt,    \* history: time of this call's rate check
    overtaken,    \* history: a non-reply post got its 2xx since this call's rate check
    lastSuccess,  \* history: time of the last 2xx answer to a non-reply post
    guarded,      \* history: texts whose duplicate guard has been written
    posted,       \* history: texts a post of which got a 2xx
    replied,      \* history: mentions a reply to which got a 2xx
    jobs,         \* history: jobs started so far
    env,          \* the Worker's Env: the configured secrets
    request,      \* per invocation: the HTTP request being handled
    response,     \* per invocation: the HTTP response of the fetch handler
    cache,        \* per invocation: locals of getCachedData / refreshCache
    journal,      \* per invocation: locals of addJournalEntry
    oauth,        \* per invocation: the OAuth 1.0a values postTweet computes
    outbox,       \* per invocation: the caller's finalTweet and the body given to fetch
    cron          \* per invocation: the cron firing handled by scheduled()

\* what the fetch handler, the news cache, the journal and the signing code
\* work on; posting and the mention workflow leave it alone
handlerVars == <<env, request, response, cache, journal, oauth, outbox, cron>>

vars == <<now, kv, pc, job, text, replyTo, queue, result, repliedList,
          netCalls, checkedAt, overtaken, lastSuccess, guarded, posted, replied,
          jobs, handlerVars>>

----------------------------------------------------------------------------
(* Bounds of the model *)

\* the clock stops here
MaxTime == 1800001

\* the same for the sequential specification, past the one-hour life of the timestamp key
MaxTimeSeq == 3600002

\* jobs (tweet jobs and mention checks) started in one behaviour
MaxJobs == 2

\* concurrent Worker invocations
Procs == {"w1", "w2"}

\* the one invocation of the sequential specification
SeqProcs == {"w1"}

\* texts a caller may hand to postTweet
AllTexts == {"A", "B", "C"}

\* the texts used when two invocations run concurrently
Texts == {"A", "B"}

\* the bot's mentions timeline, newest first
MentionTimeline == <<"m2", "m1">>

Mentions == {MentionTimeline[i] : i \in 1..Len(MentionTimeline)}

----------------------------------------------------------------------------
(* Program constants *)

\* `const thirtyMinutes = 30 * 60 * 1000`
thirtyMinutes == 30 * 60 * 1000

\* mutant: the timestamp key lives one minute
LastTweetTtlShort == 1 * 60

\* expirationTtl of 'last_tweet_timestamp', in seconds
LastTweetTtl == 3600

\* mutant: the guard lives two minutes
RecentTweetTtlShort == 2 * 60

\* expirationTtl of a recent_tweet_<hash> key, in seconds
RecentTweetTtl == 7200

MaxRepliedMentions == 100

\* clock steps: one millisecond short of the interval, the interval, one over
ClockSteps == {thirtyMinutes - 1, thirtyMinutes, thirtyMinutes + 1}

\* history variables: no time recorded yet
None == 0 - 1

NoReply == "none"

NoText == "none"

NoTtl == 0

NoExpiry == -1

----------------------------------------------------------------------------
(* Strings of decimal digits: Date.now().toString() and parseInt *)

RECURSIVE toString(_)
toString(n) == IF n < 10 THEN <<n>> ELSE Append(toString(n \div 10), n % 10)

RECURSIVE parseInt(_)
parseInt(s) == IF Len(s) = 0 THEN 0
               ELSE 10 * parseInt(SubSeq(s, 1, Len(s) - 1)) + s[Len(s)]

\* new Date().toISOString(): a non-empty rendering of the clock
ToISOString(t) == <<"T">> \o toString(t)

\* SHA-256 of the text, hex-encoded: distinct texts give distinct digests
tweetHashHex(t) == <<"sha256", t>>

----------------------------------------------------------------------------
(* The key-value store *)

LastTweetKey == <<"last_tweet_timestamp", "">>

RepliedMentionsKey == <<"replied_mentions", "">>

recentTweetKey(t) == <<"recent_tweet_", tweetHashHex(t)[2]>>

replyKey(m) == <<"replied_to_mention_", m>>

\* CACHE_KEYS of news-cache.ts
CryptoDataKey == <<"daily_crypto_data", "">>

TechInsightsKey == <<"daily_tech_insights", "">>

CacheLastUpdateKey == <<"cache_last_update", "">>

\* JOURNAL_KEY of journal.ts
JournalKey == <<"gpt-enduser-journal", "">>

Keys == {LastTweetKey, RepliedMentionsKey, CryptoDataKey, TechInsightsKey,
         CacheLastUpdateKey, JournalKey}
        \cup {recentTweetKey(t) : t \in AllTexts}
        \cup {replyKey(m) : m \in Mentions}

Absent == [present |-> FALSE, value |-> <<>>, expiration |-> NoExpiry]

Live(e, t) == e.present /\ (e.expiration = NoExpiry \/ t < e.expiration)

\* KVNamespace.get: null for a key that is absent or expired
KVGet(store, key, t) ==
    IF Live(store[key], t)
    THEN [found |-> TRUE, value |-> store[key].value]
    ELSE [found |-> FALSE, value |-> <<>>]

\* KVNamespace.put with an optional expirationTtl in seconds
KVPut(store, key, value, ttl, t) ==
    [store EXCEPT ![key] =
        [present |-> TRUE, value |-> value,
         expiration |-> IF ttl = NoTtl THEN NoExpiry ELSE t + ttl * 1000]]

\* expired keys leave the store
KVExpire(store, t) ==
    [k \in DOMAIN store |-> IF Live(store[k], t) THEN store[k] ELSE Absent]

\* JavaScript truthiness of a get result: null and "" are falsy
Truthy(r) == r.found /\ r.value # <<>>

----------------------------------------------------------------------------
(* Results of postTweet *)

NoResult == [ok |-> FALSE, status |-> 0, error |-> "none"]

RateLimited == [ok |-> FALSE, status |-> 429, error |-> "Rate limited"]

Duplicate == [ok |-> FALSE, status |-> 429, error |-> "Tweet already posted recently"]

UpstreamError(s) == [ok |-> FALSE, status |-> s, error |-> "Twitter API error"]

Success(s) == [ok |-> TRUE, status |-> s, error |-> ""]

\* what the tweet endpoint can answer: a 2xx, a 429 or 5xx, or no answer at
\* all (the fetch promise rejects: no status)
OkStatuses == {201}

ErrorStatuses == {429, 503}

NetworkError == 0

Outcomes == OkStatuses \cup ErrorStatuses \cup {NetworkError}

----------------------------------------------------------------------------
(* The Worker's Env and the values of an invocation that handles nothing *)

\* strings are sequences of one-character strings; "" is the empty sequence
EmptyString == <<>>

\* ADMIN_USERNAME, ADMIN_PASSWORD and ADMIN_TOKEN are not set
DevEnv == [ADMIN_USERNAME |-> EmptyString, ADMIN_PASSWORD |-> EmptyString,
           ADMIN_TOKEN |-> EmptyString]

\* `request.headers.get(...)` of a header the request does not carry: null
NoHeader == [scheme |-> "", payload |-> EmptyString]

NoRequest == [pathname |-> "", method |-> "", debug |-> FALSE,
              authorization |-> NoHeader]

NoResponse == [status |-> 0, body |-> "", wwwAuthenticate |-> ""]

NoCache == [fn |-> "none"]

NoJournal == [fn |-> "none"]

NoOAuth == [fn |-> "none"]

NoOutbox == [fn |-> "none"]

NoCron == [fn |-> "none"]

----------------------------------------------------------------------------

\* posting and the mention workflow: no call in progress, nothing posted
InitCalls ==
    /\ pc = [p \in Procs |-> "idle"]
    /\ job = [p \in Procs |-> "none"]
    /\ text = [p \in Procs |-> NoText]
    /\ replyTo = [p \in Procs |-> NoReply]
    /\ queue = [p \in Procs |-> <<>>]
    /\ result = [p \in Procs |-> NoResult]
    /\ repliedList = [p \in Procs |-> <<>>]
    /\ netCalls = [p \in Procs |-> 0]
    /\ checkedAt = [p \in Procs |-> None]
    /\ overtaken = [p \in Procs |-> FALSE]
    /\ lastSuccess = None
    /\ guarded = {}
    /\ posted = {}
    /\ replied = {}
    /\ jobs = 0

\* the clock starts, nothing is stored, no call is in progress
InitPosting ==
    /\ now = 0
    /\ kv = [k \in Keys |-> Absent]
    /\ InitCalls

\* no request, no cache call, no journal call and no signing in progress
InitHandlers ==
    /\ request = [p \in Procs |-> NoRequest]
    /\ response = [p \in Procs |-> NoResponse]
    /\ cache = [p \in Procs |-> NoCache]
    /\ journal = [p \in Procs |-> NoJournal]
    /\ oauth = [p \in Procs |-> NoOAuth]
    /\ outbox = [p \in Procs |-> NoOutbox]
    /\ cron = [p \in Procs |-> NoCron]

Init ==
    /\ InitPosting
    /\ InitHandlers
    /\ env = DevEnv

----------------------------------------------------------------------------
(* postTweet *)

\* mutant: the exemption of replies is forgotten
EntryPointAlwaysRateCheck(r) == "rateCheck"

\* mutant: no call is rate-checked
EntryPointSkipsRateCheck(r) == "dedupCheck"

\* `if (!replyToTweetId)`: a reply skips the rate limit and goes on to the
\* duplicate check
EntryPoint(r) == IF r = NoReply THEN "rateCheck" ELSE "dedupCheck"

\* postTweet(env, text, replyToTweetId) is called
PostTweetEntry(p, t, r) ==
    /\ text' = [text EXCEPT ![p] = t]
    /\ replyTo' = [replyTo EXCEPT ![p] = r]
    /\ result' = [result EXCEPT ![p] = NoResult]
    /\ netCalls' = [netCalls EXCEPT ![p] = 0]
    /\ checkedAt' = [checkedAt EXCEPT ![p] = None]
    /\ overtaken' = [overtaken EXCEPT ![p] = FALSE]
    /\ pc' = [pc EXCEPT ![p] = EntryPoint(r)]

\* mutant: the interval is compared with <= instead of <
IsRateLimitedInclusive(lastTweetTime, t) ==
    /\ Truthy(lastTweetTime)
    /\ t - parseInt(lastTweetTime.value) <= thirtyMinutes

\* `if (lastTweetTime) { ... if (timeSinceLastTweet < thirtyMinutes)`
IsRateLimited(lastTweetTime, t) ==
    /\ Truthy(lastTweetTime)
    /\ t - parseInt(lastTweetTime.value) < thirtyMinutes

\* `return {ok, status, body, error}`
Return(p, r) ==
    /\ pc' = [pc EXCEPT ![p] = "returned"]
    /\ result' = [result EXCEPT ![p] = r]

\* await NEWS_CACHE.get('last_tweet_timestamp') and the comparison after it
RateCheck(p) ==
    /\ pc[p] = "rateCheck"
    /\ LET lastTweetTime == KVGet(kv, LastTweetKey, now)
       IN  IF IsRateLimited(lastTweetTime, now)
           THEN Return(p, RateLimited)
           ELSE /\ pc' = [pc EXCEPT ![p] = "dedupCheck"]
                /\ UNCHANGED result
    /\ checkedAt' = [checkedAt EXCEPT ![p] = now]
    /\ overtaken' = [overtaken EXCEPT ![p] = FALSE]
    /\ UNCHANGED <<now, kv, job, text, replyTo, queue, repliedList, netCalls,
                   lastSuccess, guarded, posted, replied, jobs>>
    /\ UNCHANGED handlerVars

\* mutant: a rejected duplicate refreshes the guard it ran into
DedupCheckRefreshes(p) ==
    /\ pc[p] = "dedupCheck"
    /\ LET recentTweet == KVGet(kv, recentTweetKey(text[p]), now)
       IN  IF Truthy(recentTweet)
           THEN /\ Return(p, Duplicate)
                /\ kv' = KVPut(kv, recentTweetKey(text[p]), ToISOString(now),
                               RecentTweetTtl, now)
           ELSE /\ pc' = [pc EXCEPT ![p] = "dedupPut"]
                /\ UNCHANGED <<result, kv>>
    /\ UNCHANGED <<now, job, text, replyTo, queue, repliedList, netCalls,
                   checkedAt, overtaken, lastSuccess, guarded, posted, replied,
                   jobs>>
    /\ UNCHANGED handlerVars

\* await NEWS_CACHE.get(recentTweetKey) and `if (recentTweet) return ...`
DedupCheck(p) ==
    /\ pc[p] = "dedupCheck"
    /\ LET recentTweet == KVGet(kv, recentTweetKey(text[p]), now)
       IN  IF Truthy(recentTweet)
           THEN Return(p, Duplicate)
           ELSE /\ pc' = [pc EXCEPT ![p] = "dedupPut"]
                /\ UNCHANGED result
    /\ UNCHANGED <<now, kv, job, text, replyTo, queue, repliedList, netCalls,
                   checkedAt, overtaken, lastSuccess, guarded, posted, replied,
                   jobs>>
    /\ UNCHANGED handlerVars

\* mutant: the guard is not stored before the request is sent
DedupPutNoWrite(p) ==
    /\ pc[p] = "dedupPut"
    /\ guarded' = guarded \cup {text[p]}
    /\ pc' = [pc EXCEPT ![p] = "fetch"]
    /\ UNCHANGED <<now, kv, job, text, replyTo, queue, result, repliedList,
                   netCalls, checkedAt, overtaken, lastSuccess, posted, replied,
                   jobs>>
    /\ UNCHANGED handlerVars

\* await NEWS_CACHE.put(recentTweetKey, new Date().toISOString(), {expirationTtl: 7200})
DedupPut(p) ==
    /\ pc[p] = "dedupPut"
    /\ kv' = KVPut(kv, recentTweetKey(text[p]), ToISOString(now), RecentTweetTtl, now)
    /\ guarded' = guarded \cup {text[p]}
    /\ pc' = [pc EXCEPT ![p] = "fetch"]
    /\ UNCHANGED <<now, job, text, replyTo, queue, result, repliedList, netCalls,
                   checkedAt, overtaken, lastSuccess, posted, replied, jobs>>
    /\ UNCHANGED handlerVars

\* the request is signed and fetch(url, {method: "POST", ...}) is issued
Fetch(p) ==
    /\ pc[p] = "fetch"
    /\ netCalls' = [netCalls EXCEPT ![p] = netCalls[p] + 1]
    /\ pc' = [pc EXCEPT ![p] = "response"]
    /\ UNCHANGED <<now, kv, job, text, replyTo, queue, result, repliedList,
                   checkedAt, overtaken, lastSuccess, guarded, posted, replied,
                   jobs>>
    /\ UNCHANGED handlerVars

\* mutant: the time taken at the rate check is stored
SuccessTimestampAtCheck(p) == checkedAt[p]

\* `Date.now().toString()` in the put of 'last_tweet_timestamp'
SuccessTimestamp(p) == now

\* the fetch promise rejects: nothing in postTweet catches it
FetchRejects(p) ==
    /\ pc' = [pc EXCEPT ![p] = "thrown"]
    /\ UNCHANGED <<kv, result, overtaken, lastSuccess, posted, replied>>

\* mutant: a failed send takes the duplicate guard back
FetchNotOkRollsBack(p, s) ==
    /\ Return(p, UpstreamError(s))
    /\ kv' = [kv EXCEPT ![recentTweetKey(text[p])] = Absent]
    /\ UNCHANGED <<overtaken, lastSuccess, posted, replied>>

\* mutant: a refused request is sent again
FetchNotOkRetries(p, s) ==
    /\ pc' = [pc EXCEPT ![p] = "fetch"]
    /\ UNCHANGED <<kv, result, overtaken, lastSuccess, posted, replied>>

\* `if (!res.ok) return {ok: false, status: res.status, ...}`
FetchNotOk(p, s) ==
    /\ Return(p, UpstreamError(s))
    /\ UNCHANGED <<kv, overtaken, lastSuccess, posted, replied>>

\* mutant: a successful reply records the timestamp too
FetchOkStampsReplies(p, s) ==
    /\ Return(p, Success(s))
    /\ posted' = posted \cup {text[p]}
    /\ kv' = KVPut(kv, LastTweetKey, toString(SuccessTimestamp(p)), LastTweetTtl, now)
    /\ lastSuccess' = IF replyTo[p] = NoReply THEN now ELSE lastSuccess
    /\ replied' = IF replyTo[p] = NoReply THEN replied ELSE replied \cup {replyTo[p]}
    /\ UNCHANGED overtaken

\* 2xx: a non-reply post records 'last_tweet_timestamp', then `return {ok: true, ...}`
FetchOk(p, s) ==
    /\ Return(p, Success(s))
    /\ posted' = posted \cup {text[p]}
    /\ IF replyTo[p] = NoReply
       THEN /\ kv' = KVPut(kv, LastTweetKey, toString(SuccessTimestamp(p)),
                           LastTweetTtl, now)
            /\ lastSuccess' = now
            /\ overtaken' = [q \in Procs |->
                                IF q # p /\ checkedAt[q] # None /\ pc[q] # "returned"
                                THEN TRUE ELSE overtaken[q]]
            /\ UNCHANGED replied
       ELSE /\ replied' = replied \cup {replyTo[p]}
            /\ UNCHANGED <<kv, lastSuccess, overtaken>>

\* await fetch(...) and await res.text() settle with outcome o
Response(p, o) ==
    /\ pc[p] = "response"
    /\ IF o = NetworkError THEN FetchRejects(p)
       ELSE IF o \in OkStatuses THEN FetchOk(p, o)
       ELSE FetchNotOk(p, o)
    /\ UNCHANGED <<now, job, text, replyTo, queue, repliedList, netCalls,
                   checkedAt, guarded, jobs>>
    /\ UNCHANGED handlerVars

----------------------------------------------------------------------------
(* Callers *)

\* postTweet's frame is gone
Forget(p) ==
    /\ text' = [text EXCEPT ![p] = NoText]
    /\ replyTo' = [replyTo EXCEPT ![p] = NoReply]
    /\ result' = [result EXCEPT ![p] = NoResult]
    /\ repliedList' = [repliedList EXCEPT ![p] = <<>>]
    /\ netCalls' = [netCalls EXCEPT ![p] = 0]
    /\ checkedAt' = [checkedAt EXCEPT ![p] = None]
    /\ overtaken' = [overtaken EXCEPT ![p] = FALSE]

\* the invocation is over
Finished(p) ==
    /\ pc' = [pc EXCEPT ![p] = "idle"]
    /\ job' = [job EXCEPT ![p] = "none"]
    /\ queue' = [queue EXCEPT ![p] = <<>>]
    /\ Forget(p)

\* a cron job or an HTTP trigger has its tweet text and calls postTweet(env, text)
TweetJob(p, t) ==
    /\ pc[p] = "idle"
    /\ jobs < MaxJobs
    /\ jobs' = jobs + 1
    /\ job' = [job EXCEPT ![p] = "tweet"]
    /\ PostTweetEntry(p, t, NoReply)
    /\ UNCHANGED <<now, kv, queue, repliedList, lastSuccess, guarded, posted,
                   replied>>
    /\ UNCHANGED handlerVars

\* the tweet job gets postTweet's result, or catches what it threw, and ends
TweetJobEnds(p) ==
    /\ job[p] = "tweet"
    /\ pc[p] \in {"returned", "thrown"}
    /\ Finished(p)
    /\ UNCHANGED <<now, kv, lastSuccess, guarded, posted, replied, jobs>>
    /\ UNCHANGED handlerVars

\* a cron firing or /api/check-mentions starts checkAndReplyToMentions
MentionCheck(p) ==
    /\ pc[p] = "idle"
    /\ jobs < MaxJobs
    /\ jobs' = jobs + 1
    /\ job' = [job EXCEPT ![p] = "mentions"]
    /\ pc' = [pc EXCEPT ![p] = "getMentions"]
    /\ UNCHANGED <<now, kv, text, replyTo, queue, result, repliedList, netCalls,
                   checkedAt, overtaken, lastSuccess, guarded, posted, replied>>
    /\ UNCHANGED handlerVars

\* `if (!alreadyReplied) unhandledMentions.push(mention)`
Unhandled(found) ==
    SelectSeq(found, LAMBDA m : ~Truthy(KVGet(kv, replyKey(m), now)))

\* getRecentMentions: the API lists the mentions in S; those without a
\* replied_to_mention_<id> key are returned
GetRecentMentions(p, S) ==
    /\ pc[p] = "getMentions"
    /\ LET found == SelectSeq(MentionTimeline, LAMBDA m : m \in S)
           unhandledMentions == Unhandled(found)
       IN  IF unhandledMentions = <<>>
           THEN Finished(p)
           ELSE /\ queue' = [queue EXCEPT ![p] = unhandledMentions]
                /\ pc' = [pc EXCEPT ![p] = "replyToMention"]
                /\ UNCHANGED <<job, text, replyTo, result, repliedList, netCalls,
                               checkedAt, overtaken>>
    /\ UNCHANGED <<now, kv, lastSuccess, guarded, posted, replied, jobs>>
    /\ UNCHANGED handlerVars

\* replyToMention: the AI writes the reply t, then postTweet(env, finalReply, mention.id)
ReplyToMention(p, t) ==
    /\ pc[p] = "replyToMention"
    /\ PostTweetEntry(p, t, Head(queue[p]))
    /\ UNCHANGED <<now, kv, job, queue, repliedList, lastSuccess, guarded, posted,
                   replied, jobs>>
    /\ UNCHANGED handlerVars

\* the loop of checkAndReplyToMentions moves to the next mention, or ends
NextMention(p) ==
    IF Tail(queue[p]) = <<>>
    THEN Finished(p)
    ELSE /\ queue' = [queue EXCEPT ![p] = Tail(queue[p])]
         /\ pc' = [pc EXCEPT ![p] = "replyToMention"]
         /\ Forget(p)
         /\ UNCHANGED job

\* replyToMention after postTweet: `if (result.ok) await markMentionAsReplied(...)`,
\* and its catch block when postTweet threw
ReplyOutcome(p) ==
    /\ job[p] = "mentions"
    /\ pc[p] \in {"returned", "thrown"}
    /\ IF pc[p] = "returned" /\ result[p].ok
       THEN /\ pc' = [pc EXCEPT ![p] = "markGet"]
            /\ UNCHANGED <<job, text, replyTo, queue, result, repliedList, netCalls,
                           checkedAt, overtaken>>
       ELSE NextMention(p)
    /\ UNCHANGED <<now, kv, lastSuccess, guarded, posted, replied, jobs>>
    /\ UNCHANGED handlerVars

\* `repliedList.push(mentionId)` and the cut to the last 100 ids
PushReplied(list, m) ==
    LET pushed == Append(list, m)
    IN  IF Len(pushed) > MaxRepliedMentions
        THEN SubSeq(pushed, Len(pushed) - MaxRepliedMentions + 1, Len(pushed))
        ELSE pushed

\* markMentionAsReplied: await NEWS_CACHE.get('replied_mentions') || '[]'
MarkGet(p) ==
    /\ pc[p] = "markGet"
    /\ LET got == KVGet(kv, RepliedMentionsKey, now)
           list == IF Truthy(got) THEN got.value ELSE <<>>
           m == Head(queue[p])
       IN  IF \E i \in 1..Len(list) : list[i] = m
           THEN NextMention(p)
           ELSE /\ repliedList' = [repliedList EXCEPT ![p] = PushReplied(list, m)]
                /\ pc' = [pc EXCEPT ![p] = "markPut"]
                /\ UNCHANGED <<job, text, replyTo, queue, result, netCalls,
                               checkedAt, overtaken>>
    /\ UNCHANGED <<now, kv, lastSuccess, guarded, posted, replied, jobs>>
    /\ UNCHANGED handlerVars

\* markMentionAsReplied: await NEWS_CACHE.put('replied_mentions', JSON.stringify(repliedList))
MarkPut(p) ==
    /\ pc[p] = "markPut"
    /\ kv' = KVPut(kv, RepliedMentionsKey, repliedList[p], NoTtl, now)
    /\ NextMention(p)
    /\ UNCHANGED <<now, lastSuccess, guarded, posted, replied, jobs>>
    /\ UNCHANGED handlerVars

\* time passes
Advance(d, horizon) ==
    /\ now + d <= horizon
    /\ now' = now + d
    /\ kv' = KVExpire(kv, now')
    /\ UNCHANGED <<pc, job, text, replyTo, queue, result, repliedList, netCalls,
                   checkedAt, overtaken, lastSuccess, guarded, posted, replied,
                   jobs>>
    /\ UNCHANGED handlerVars

NextFor(P, T, horizon) ==
    \/ \E p \in P, t \in T : TweetJob(p, t)
    \/ \E p \in P : TweetJobEnds(p)
    \/ \E p \in P : MentionCheck(p)
    \/ \E p \in P, S \in SUBSET Mentions : GetRecentMentions(p, S)
    \/ \E p \in P, t \in T : ReplyToMention(p, t)
    \/ \E p \in P : ReplyOutcome(p)
    \/ \E p \in P : MarkGet(p)
    \/ \E p \in P : MarkPut(p)
    \/ \E p \in P : RateCheck(p)
    \/ \E p \in P : DedupCheck(p)
    \/ \E p \in P : DedupPut(p)
    \/ \E p \in P : Fetch(p)
    \/ \E p \in P, o \in Outcomes : Response(p, o)
    \/ \E d \in ClockSteps : Advance(d, horizon)

\* concurrent invocations
Next == NextFor(Procs, Texts, MaxTime)

Spec == Init /\ [][Next]_vars

\* the steps of postTweet in invocation p
PostTweetStep(p) ==
    \/ RateCheck(p)
    \/ DedupCheck(p)
    \/ DedupPut(p)
    \/ Fetch(p)
    \/ \E o \in Outcomes : Response(p, o)

\* concurrent invocations posting one text within half an hour
NextLive == NextFor(Procs, {"A"}, thirtyMinutes)

\* the runtime resumes an invocation whose await has settled, and every
\* store operation and every fetch settles
SpecLive ==
    /\ Init
    /\ [][NextLive]_vars
    /\ \A p \in Procs : WF_vars(PostTweetStep(p))

\* the clock of the retention specification stops here, past the two-hour
\* life of a duplicate guard
MaxTimeWindow == 7200001

\* clock steps of the retention specification: an hour, give or take 1 ms
WindowSteps == {2 * thirtyMinutes - 1, 2 * thirtyMinutes, 2 * thirtyMinutes + 1}

\* one invocation at a time posting one text, over two hours
NextWindow ==
    \/ \E p \in SeqProcs : TweetJob(p, "A")
    \/ \E p \in SeqProcs : TweetJobEnds(p)
    \/ \E p \in SeqProcs : MentionCheck(p)
    \/ \E p \in SeqProcs, S \in SUBSET Mentions : GetRecentMentions(p, S)
    \/ \E p \in SeqProcs : ReplyToMention(p, "A")
    \/ \E p \in SeqProcs : ReplyOutcome(p)
    \/ \E p \in SeqProcs : MarkGet(p)
    \/ \E p \in SeqProcs : MarkPut(p)
    \/ \E p \in SeqProcs : PostTweetStep(p)
    \/ \E d \in WindowSteps : Advance(d, MaxTimeWindow)

SpecWindow == Init /\ [][NextWindow]_vars

\* one invocation at a time, over a longer time
NextSeq == NextFor(SeqProcs, AllTexts, MaxTimeSeq)

SpecSeq == Init /\ [][NextSeq]_vars

----------------------------------------------------------------------------
(* checkBasicAuth *)

\* btoa: the base64 form of a string is not the string
btoa(s) == <<"base64">> \o s

\* atob throws on what is not base64
IsBase64(x) == Len(x) > 0 /\ x[1] = "base64"

atob(x) == Tail(x)

\* the header `Basic <base64 of c>`
Basic(c) == [scheme |-> "Basic", payload |-> btoa(c)]

\* the header `Bearer <t>`
Bearer(t) == [scheme |-> "Bearer", payload |-> t]

\* String.prototype.split: the pieces between the separators
RECURSIVE split(_, _)
split(s, sep) ==
    IF \E i \in 1..Len(s) : s[i] = sep
    THEN LET i == CHOOSE k \in 1..Len(s) :
                      s[k] = sep /\ \A j \in 1..(k - 1) : s[j] # sep
         IN  <<SubSeq(s, 1, i - 1)>> \o split(SubSeq(s, i + 1, Len(s)), sep)
    ELSE <<s>>

\* what destructuring gives for a missing element
undefined == <<"undefined">>

\* `const [username, password] = ...`: element i, or undefined
Destructure(parts, i) == IF i <= Len(parts) THEN parts[i] ELSE undefined

\* `return true`
AuthGranted == [status |-> 0, body |-> "true", wwwAuthenticate |-> ""]

\* `new Response(msg, {status: 401, headers: {'WWW-Authenticate': ...}})`
Challenge(msg) ==
    [status |-> 401, body |-> msg,
     wwwAuthenticate |-> "Basic realm=\"GPT Enduser Admin\""]

\* `authorization.match(/^Basic\s+(.+)$/)`
MatchesBasic(authorization) ==
    authorization.scheme = "Basic" /\ authorization.payload # EmptyString

\* `username === env.ADMIN_USERNAME && password === env.ADMIN_PASSWORD`
CredentialsMatch(username, password, e) ==
    username = e.ADMIN_USERNAME /\ password = e.ADMIN_PASSWORD

checkBasicAuth(authorization, e) ==
    IF e.ADMIN_USERNAME = EmptyString \/ e.ADMIN_PASSWORD = EmptyString
    THEN AuthGranted
    ELSE IF authorization = NoHeader
    THEN Challenge("Authentication required")
    ELSE IF ~MatchesBasic(authorization)
    THEN Challenge("Invalid authentication format")
    ELSE IF ~IsBase64(authorization.payload)
    THEN Challenge("Invalid authentication encoding")
    ELSE LET credentials == atob(authorization.payload)
             parts == split(credentials, ":")
             username == Destructure(parts, 1)
             password == Destructure(parts, 2)
         IN  IF CredentialsMatch(username, password, e)
             THEN AuthGranted
             ELSE Challenge("Invalid credentials")

----------------------------------------------------------------------------
(* The fetch handler: the routes that start a tweet job *)

\* routes that run a tweet job behind checkBasicAuth alone
BasicAuthTweetRoutes ==
    {"/api/dfw-weather", "/api/tweet-now", "/api/goodnight", "/api/drunk-ai"}

TweetRoutes == BasicAuthTweetRoutes \cup {"/api/tweet"}

Methods == {"GET", "POST"}

\* `new Response("Method not allowed", {status: 405})`
MethodNotAllowed == [status |-> 405, body |-> "Method not allowed", wwwAuthenticate |-> ""]

\* `new Response("Unauthorized", {status: 401})` of the bearer-token check
BearerUnauthorized == [status |-> 401, body |-> "Unauthorized", wwwAuthenticate |-> ""]

\* `new Response("ok", {status: 200})`: the job goes on under ctx.waitUntil
Accepted200 == [status |-> 200, body |-> "ok", wwwAuthenticate |-> ""]

\* the JSON of the job's result, with the given status
JobResponse(st) == [status |-> st, body |-> "result", wwwAuthenticate |-> ""]

\* run<...>Tweet found no text to post: `return {ok: false, error: "empty tweet"}`
EmptyTweet == [ok |-> FALSE, status |-> 0, error |-> "empty tweet"]

\* `auth.startsWith("Bearer ") ? auth.slice(7) : ""`
BearerToken(authorization) ==
    IF authorization.scheme = "Bearer" THEN authorization.payload ELSE EmptyString

\* how the handler treats a request: answer it at once (with which response),
\* or run the tweet job (and answer before or after it)
Route(req, e) ==
    LET authCheck == checkBasicAuth(req.authorization, e)
        basic == IF authCheck # AuthGranted
                 THEN [run |-> FALSE, reply |-> authCheck]
                 ELSE [run |-> TRUE, reply |-> NoResponse]
    IN  IF req.pathname \in BasicAuthTweetRoutes THEN basic
        ELSE IF req.method = "GET" /\ req.debug THEN basic
        ELSE IF req.method # "POST"
        THEN [run |-> FALSE, reply |-> MethodNotAllowed]
        ELSE IF e.ADMIN_TOKEN # EmptyString
                /\ BearerToken(req.authorization) # e.ADMIN_TOKEN
        THEN [run |-> FALSE, reply |-> BearerUnauthorized]
        ELSE IF req.debug THEN basic
        ELSE [run |-> TRUE, reply |-> Accepted200]

\* the job builds the text t (the AI's, or the request's override) and calls
\* postTweet(env, truncatedTweet); with no text it returns at once
RunTweetJob(p, t) ==
    /\ job' = [job EXCEPT ![p] = "tweet"]
    /\ IF t = NoText
       THEN /\ pc' = [pc EXCEPT ![p] = "returned"]
            /\ result' = [result EXCEPT ![p] = EmptyTweet]
            /\ UNCHANGED <<text, replyTo, netCalls, checkedAt, overtaken>>
       ELSE PostTweetEntry(p, t, NoReply)

\* a request for one of the tweet routes arrives
HttpRequest(p, req, t) ==
    /\ pc[p] = "idle"
    /\ request[p] = NoRequest
    /\ jobs < MaxJobs
    /\ jobs' = jobs + 1
    /\ request' = [request EXCEPT ![p] = req]
    /\ LET route == Route(req, env)
       IN  /\ response' = [response EXCEPT ![p] = route.reply]
           /\ IF route.run
              THEN RunTweetJob(p, t)
              ELSE UNCHANGED <<pc, job, text, replyTo, result, netCalls, checkedAt,
                               overtaken>>
    /\ UNCHANGED <<now, kv, queue, repliedList, lastSuccess, guarded, posted,
                   replied, env, cache, journal, oauth,
                   outbox, cron>>

\* the job is over (what postTweet threw is caught by the job): the handler
\* answers with its result, unless it has answered already
HttpRespond(p) ==
    /\ request[p] # NoRequest
    /\ job[p] = "tweet"
    /\ pc[p] \in {"returned", "thrown"}
    /\ response' = [response EXCEPT ![p] =
          IF response[p] # NoResponse THEN response[p]
          ELSE IF request[p].pathname = "/api/tweet"
                  /\ ~(pc[p] = "returned" /\ result[p].ok)
          THEN JobResponse(500)
          ELSE JobResponse(200)]
    /\ pc' = [pc EXCEPT ![p] = "idle"]
    /\ job' = [job EXCEPT ![p] = "none"]
    /\ UNCHANGED <<now, kv, text, replyTo, queue, result, repliedList, netCalls,
                   checkedAt, overtaken, lastSuccess, guarded, posted, replied,
                   jobs, env, request, cache, journal, oauth,
                   outbox, cron>>

\* the invocation that handled the request ends
HttpDone(p) ==
    /\ request[p] # NoRequest
    /\ response[p] # NoResponse
    /\ pc[p] = "idle"
    /\ request' = [request EXCEPT ![p] = NoRequest]
    /\ response' = [response EXCEPT ![p] = NoResponse]
    /\ Finished(p)
    /\ UNCHANGED <<now, kv, lastSuccess, guarded, posted, replied, jobs, env,
                   cache, journal, oauth,
                   outbox, cron>>

----------------------------------------------------------------------------
(* Requests to the tweet routes, with a handful of Authorization headers *)

AdminUser == <<"u">>

AdminPassword == <<"p">>

AdminToken == <<"t">>

\* the deployments: nothing configured, admin credentials only, credentials
\* and ADMIN_TOKEN
HttpEnvs ==
    {DevEnv,
     [ADMIN_USERNAME |-> AdminUser, ADMIN_PASSWORD |-> AdminPassword,
      ADMIN_TOKEN |-> EmptyString],
     [ADMIN_USERNAME |-> AdminUser, ADMIN_PASSWORD |-> AdminPassword,
      ADMIN_TOKEN |-> AdminToken]}

\* no header, the right and a wrong Basic header, the right and a wrong bearer token
HttpHeaders ==
    {NoHeader,
     Basic(AdminUser \o <<":">> \o AdminPassword),
     Basic(AdminUser \o <<":">> \o AdminUser),
     Bearer(AdminToken),
     Bearer(<<"x">>)}

HttpRequests ==
    [pathname : TweetRoutes, method : Methods, debug : BOOLEAN,
     authorization : HttpHeaders]

InitHttp ==
    /\ InitPosting
    /\ InitHandlers
    /\ env \in HttpEnvs

NextHttp ==
    \/ \E p \in SeqProcs, req \in HttpRequests, t \in Texts \cup {NoText} :
          HttpRequest(p, req, t)
    \/ \E p \in SeqProcs : HttpRespond(p)
    \/ \E p \in SeqProcs : HttpDone(p)
    \/ \E p \in SeqProcs : RateCheck(p)
    \/ \E p \in SeqProcs : DedupCheck(p)
    \/ \E p \in SeqProcs : DedupPut(p)
    \/ \E p \in SeqProcs : Fetch(p)
    \/ \E p \in SeqProcs, o \in Outcomes : Response(p, o)
    \/ \E d \in ClockSteps : Advance(d, MaxTime)

SpecHttp == InitHttp /\ [][NextHttp]_vars

----------------------------------------------------------------------------
(* Requests to one protected route, with every Authorization header *)

\* the characters credentials are made of
CredentialChars == {"u", "p", ":"}

\* the longest credentials string
MaxCredentialLen == 5

Credentials == UNION {[1..n -> CredentialChars] : n \in 0..MaxCredentialLen}

\* admin credentials are configured, in one deployment with a colon in the password
AuthEnvs ==
    {[ADMIN_USERNAME |-> AdminUser, ADMIN_PASSWORD |-> AdminPassword,
      ADMIN_TOKEN |-> EmptyString],
     [ADMIN_USERNAME |-> AdminUser,
      ADMIN_PASSWORD |-> AdminPassword \o <<":">> \o AdminPassword,
      ADMIN_TOKEN |-> EmptyString]}

\* no header, another scheme, `Basic` with nothing or with what is not
\* base64, and `Basic` with every credentials string
AuthHeaders ==
    {NoHeader,
     Bearer(btoa(AdminUser \o <<":">> \o AdminPassword)),
     [scheme |-> "Basic", payload |-> EmptyString],
     [scheme |-> "Basic", payload |-> <<"*">>]}
    \cup {Basic(c) : c \in Credentials}

AuthRequests ==
    [pathname : {"/api/tweet-now"}, method : {"POST"}, debug : {FALSE},
     authorization : AuthHeaders]

InitAuth ==
    /\ InitPosting
    /\ InitHandlers
    /\ env \in AuthEnvs

NextAuth ==
    \/ \E p \in SeqProcs, req \in AuthRequests : HttpRequest(p, req, "A")
    \/ \E p \in SeqProcs : HttpRespond(p)
    \/ \E p \in SeqProcs : HttpDone(p)
    \/ \E p \in SeqProcs : RateCheck(p)
    \/ \E p \in SeqProcs : DedupCheck(p)
    \/ \E p \in SeqProcs : DedupPut(p)
    \/ \E p \in SeqProcs : Fetch(p)
    \/ \E p \in SeqProcs, o \in Outcomes : Response(p, o)

SpecAuth == InitAuth /\ [][NextAuth]_vars

----------------------------------------------------------------------------
(* news-cache.ts: isCacheValid, updateCache, refreshCache, getCachedData *)

\* `const CACHE_DURATION = 6 * 60 * 60 * 1000`
CACHE_DURATION == 6 * 60 * 60 * 1000

\* the clock stops here in the cache specification
MaxTimeCache == 43200002

\* clock steps around the cache duration
CacheClockSteps == {CACHE_DURATION - 1, CACHE_DURATION, CACHE_DURATION + 1}

\* the external calls of one update take this long, in milliseconds
FetchLatencies == {1}

\* the three sources of updateCache: CoinGecko, Hacker News, GitHub
Sources == {"crypto", "hackerNews", "techNews"}

\* which sources answer (TRUE) and which fail
SourceOutcomes == [Sources -> BOOLEAN]

\* fetchCryptoData: the insights, or '' from its catch block
fetchCryptoData(up) == IF up["crypto"] THEN <<"coins">> ELSE EmptyString

\* fetchTechInsights: the insights, or the fallback line of its catch block
fetchTechInsights(up) == IF up["hackerNews"] THEN <<"stories">> ELSE <<"Discovering">>

\* fetchTechNews: the insights, or the fallback line of its catch block
fetchTechNews(up) == IF up["techNews"] THEN <<"repos">> ELSE <<"Innovation">>

\* `[hackerNewsInsights, techNews].filter(...).join(' | ')`
combinedTechInsights(up) == fetchTechInsights(up) \o <<" | ">> \o fetchTechNews(up)

\* mutant: six hours exactly still count as fresh
IsFreshInclusive(lastUpdateStr, t) ==
    /\ Truthy(lastUpdateStr)
    /\ t - parseInt(lastUpdateStr.value) <= CACHE_DURATION

\* isCacheValid: `if (!lastUpdateStr) return false; return (now - lastUpdate) < CACHE_DURATION`
IsFresh(lastUpdateStr, t) ==
    /\ Truthy(lastUpdateStr)
    /\ t - parseInt(lastUpdateStr.value) < CACHE_DURATION

\* the locals of a call, and what it has done so far (history): the value of
\* cache_last_update when it began, its external fetch rounds, its store writes
CacheCall(fn) ==
    [fn |-> fn, cacheValid |-> FALSE,
     before |-> IF Truthy(KVGet(kv, CacheLastUpdateKey, now))
                THEN parseInt(kv[CacheLastUpdateKey].value) ELSE None,
     fetches |-> 0, stores |-> 0,
     cryptoData |-> EmptyString, techInsights |-> EmptyString, lastUpdate |-> None]

\* what the cache actions leave alone
CacheFrame ==
    UNCHANGED <<text, replyTo, queue, result, repliedList, netCalls, checkedAt,
                overtaken, lastSuccess, guarded, posted, replied, env, request,
                response, journal, oauth,
                   outbox, cron>>

\* getCachedData(env) is called
GetCachedData(p) ==
    /\ pc[p] = "idle"
    /\ jobs < MaxJobs
    /\ jobs' = jobs + 1
    /\ job' = [job EXCEPT ![p] = "cache"]
    /\ cache' = [cache EXCEPT ![p] = CacheCall("getCachedData")]
    /\ pc' = [pc EXCEPT ![p] = "isCacheValid"]
    /\ UNCHANGED <<now, kv>>
    /\ CacheFrame

\* refreshCache(env) is called: `await updateCache(env)` whatever the cache holds
RefreshCache(p) ==
    /\ pc[p] = "idle"
    /\ jobs < MaxJobs
    /\ jobs' = jobs + 1
    /\ job' = [job EXCEPT ![p] = "cache"]
    /\ cache' = [cache EXCEPT ![p] = CacheCall("refreshCache")]
    /\ pc' = [pc EXCEPT ![p] = "updateFetch"]
    /\ UNCHANGED <<now, kv>>
    /\ CacheFrame

\* await isCacheValid(env), and `if (!cacheValid) await updateCache(env)`
IsCacheValid(p) ==
    /\ pc[p] = "isCacheValid"
    /\ LET cacheValid == IsFresh(KVGet(kv, CacheLastUpdateKey, now), now)
       IN  /\ cache' = [cache EXCEPT ![p].cacheValid = cacheValid]
           /\ pc' = [pc EXCEPT ![p] = IF cacheValid THEN "cacheRead" ELSE "updateFetch"]
    /\ UNCHANGED <<now, kv, job, jobs>>
    /\ CacheFrame

\* updateCache: the three fetchers are started
UpdateFetch(p) ==
    /\ pc[p] = "updateFetch"
    /\ cache' = [cache EXCEPT ![p].fetches = @ + 1]
    /\ pc' = [pc EXCEPT ![p] = "updateStore"]
    /\ UNCHANGED <<now, kv, job, jobs>>
    /\ CacheFrame

\* mutant: the data is stored without the time of the update
CachePutsNoTimestamp(store, up, t) ==
    KVPut(KVPut(store, CryptoDataKey, fetchCryptoData(up), NoTtl, t),
          TechInsightsKey, combinedTechInsights(up), NoTtl, t)

\* the three puts of updateCache, at time t
CachePuts(store, up, t) ==
    KVPut(KVPut(KVPut(store, CryptoDataKey, fetchCryptoData(up), NoTtl, t),
                TechInsightsKey, combinedTechInsights(up), NoTtl, t),
          CacheLastUpdateKey, toString(t), NoTtl, t)

\* the fetchers have settled, each with its data or its fallback:
\* `const now = Date.now()` and the three puts
UpdateStore(p, up, d) ==
    /\ pc[p] = "updateStore"
    /\ now' = now + d
    /\ kv' = CachePuts(KVExpire(kv, now'), up, now')
    /\ cache' = [cache EXCEPT ![p].stores = @ + 1]
    /\ pc' = [pc EXCEPT ![p] =
                 IF cache[p].fn = "refreshCache" THEN "cacheReturned" ELSE "cacheRead"]
    /\ UNCHANGED <<job, jobs>>
    /\ CacheFrame

\* getCachedData: the three gets, and the value returned
CacheRead(p) ==
    /\ pc[p] = "cacheRead"
    /\ LET cryptoData == KVGet(kv, CryptoDataKey, now)
           techInsights == KVGet(kv, TechInsightsKey, now)
           lastUpdateStr == KVGet(kv, CacheLastUpdateKey, now)
       IN  cache' = [cache EXCEPT
                        ![p].cryptoData =
                            IF Truthy(cryptoData) THEN cryptoData.value ELSE EmptyString,
                        ![p].techInsights =
                            IF Truthy(techInsights) THEN techInsights.value ELSE EmptyString,
                        ![p].lastUpdate =
                            parseInt(IF Truthy(lastUpdateStr) THEN lastUpdateStr.value
                                     ELSE toString(0))]
    /\ pc' = [pc EXCEPT ![p] = "cacheReturned"]
    /\ UNCHANGED <<now, kv, job, jobs>>
    /\ CacheFrame

\* the caller has the value; the call is over
CacheDone(p) ==
    /\ pc[p] = "cacheReturned"
    /\ pc' = [pc EXCEPT ![p] = "idle"]
    /\ job' = [job EXCEPT ![p] = "none"]
    /\ cache' = [cache EXCEPT ![p] = NoCache]
    /\ UNCHANGED <<now, kv, jobs>>
    /\ CacheFrame

NextCache ==
    \/ \E p \in Procs : GetCachedData(p)
    \/ \E p \in Procs : RefreshCache(p)
    \/ \E p \in Procs : IsCacheValid(p)
    \/ \E p \in Procs : UpdateFetch(p)
    \/ \E p \in Procs, up \in SourceOutcomes, d \in FetchLatencies : UpdateStore(p, up, d)
    \/ \E p \in Procs : CacheRead(p)
    \/ \E p \in Procs : CacheDone(p)
    \/ \E d \in CacheClockSteps : Advance(d, MaxTimeCache)

SpecCache == Init /\ [][NextCache]_vars

----------------------------------------------------------------------------
(* journal.ts: getJournal and addJournalEntry *)

\* `const MAX_ENTRIES = 30`
MAX_ENTRIES == 30

\* milliseconds in a day
MsPerDay == 24 * 60 * 60 * 1000

\* the clock stops here in the journal specification: four days
MaxTimeJournal == 345600000

\* addJournalEntry calls in one behaviour
MaxJournalCalls == 3

\* `new Date().toISOString().split('T')[0]`: the calendar day of a time
DateOf(t) == t \div MsPerDay

\* `yesterday.setDate(yesterday.getDate() - 1)` and its calendar day
YesterdayOf(t) == DateOf(t) - 1

\* JSON.stringify(journal)
JournalToJson(j) == <<j.entries, j.currentStreak, j.totalEntries>>

\* JSON.parse(stored)
JournalFromJson(stored) ==
    [entries |-> stored[1], currentStreak |-> stored[2], totalEntries |-> stored[3]]

\* getJournal: the stored journal, or an empty one
getJournal(store, t) ==
    LET stored == KVGet(store, JournalKey, t)
    IN  IF Truthy(stored) THEN JournalFromJson(stored.value)
        ELSE [entries |-> <<>>, currentStreak |-> 0, totalEntries |-> 0]

\* `journal.entries.filter(entry => entry.date !== today)`
WithoutDate(entries, today) == SelectSeq(entries, LAMBDA e : e.date # today)

\* `journal.entries.slice(0, MAX_ENTRIES)` when there are more
Capped(entries) ==
    IF Len(entries) > MAX_ENTRIES THEN SubSeq(entries, 1, MAX_ENTRIES) ELSE entries

\* the try block after the AI has answered: unshift, cap, totalEntries++, streak
WithEntry(j, today, t) ==
    LET entries == Capped(<<[date |-> today, fallback |-> FALSE]>> \o j.entries)
    IN  [entries |-> entries,
         totalEntries |-> j.totalEntries + 1,
         currentStreak |->
             IF Len(entries) > 1 /\ entries[2].date = YesterdayOf(t)
             THEN j.currentStreak + 1
             ELSE 1]

\* the catch block: unshift the fallback entry, totalEntries++, currentStreak = 1
WithFallbackEntry(j, today) ==
    [entries |-> <<[date |-> today, fallback |-> TRUE]>> \o j.entries,
     totalEntries |-> j.totalEntries + 1,
     currentStreak |-> 1]

\* what the journal actions leave alone
JournalFrame ==
    UNCHANGED <<job, text, replyTo, queue, result, repliedList, netCalls, checkedAt,
                overtaken, lastSuccess, guarded, posted, replied, env, request,
                response, cache, oauth,
                   outbox, cron>>

\* addJournalEntry(env, insights, tweetText) is called
AddJournalEntry(p) ==
    /\ pc[p] = "idle"
    /\ jobs < MaxJournalCalls
    /\ jobs' = jobs + 1
    /\ journal' = [journal EXCEPT ![p] = [fn |-> "addJournalEntry"]]
    /\ pc' = [pc EXCEPT ![p] = "journalGet"]
    /\ UNCHANGED <<now, kv>>
    /\ JournalFrame

\* await getJournal(env); today; today's entry is taken out
JournalGet(p) ==
    /\ pc[p] = "journalGet"
    /\ LET j == getJournal(kv, now)
           today == DateOf(now)
       IN  journal' = [journal EXCEPT ![p] =
               [fn |-> "addJournalEntry", today |-> today,
                journal |-> [j EXCEPT !.entries = WithoutDate(j.entries, today)]]]
    /\ pc' = [pc EXCEPT ![p] = "journalAI"]
    /\ UNCHANGED <<now, kv, jobs>>
    /\ JournalFrame

\* await env.AI.run(...) settles: the entry is built, or the catch block
\* builds the fallback entry
JournalAI(p, answered) ==
    /\ pc[p] = "journalAI"
    /\ journal' = [journal EXCEPT ![p].journal =
          IF answered THEN WithEntry(@, journal[p].today, now)
          ELSE WithFallbackEntry(@, journal[p].today)]
    /\ pc' = [pc EXCEPT ![p] = "journalPut"]
    /\ UNCHANGED <<now, kv, jobs>>
    /\ JournalFrame

\* await env.NEWS_CACHE.put(JOURNAL_KEY, JSON.stringify(journal)); return
JournalPut(p) ==
    /\ pc[p] = "journalPut"
    /\ kv' = KVPut(kv, JournalKey, JournalToJson(journal[p].journal), NoTtl, now)
    /\ journal' = [journal EXCEPT ![p] = NoJournal]
    /\ pc' = [pc EXCEPT ![p] = "idle"]
    /\ UNCHANGED <<now, jobs>>
    /\ JournalFrame

NextJournal ==
    \/ \E p \in SeqProcs : AddJournalEntry(p)
    \/ \E p \in SeqProcs : JournalGet(p)
    \/ \E p \in SeqProcs, answered \in BOOLEAN : JournalAI(p, answered)
    \/ \E p \in SeqProcs : JournalPut(p)
    \/ Advance(MsPerDay, MaxTimeJournal)

SpecJournal == Init /\ [][NextJournal]_vars

\* the put of the try block rejects and the catch block runs on the journal
\* the try block has already changed: the fallback entry is unshifted,
\* totalEntries++, currentStreak = 1, and the put is tried again; when it is
\* the put of the catch block that rejects, addJournalEntry rejects
JournalPutRejects(p) ==
    /\ pc[p] = "journalPut"
    /\ IF journal[p].journal.entries[1].fallback
       THEN /\ journal' = [journal EXCEPT ![p] = NoJournal]
            /\ pc' = [pc EXCEPT ![p] = "idle"]
       ELSE /\ journal' = [journal EXCEPT ![p].journal =
                              WithFallbackEntry(@, journal[p].today)]
            /\ UNCHANGED pc
    /\ UNCHANGED <<now, kv, jobs>>
    /\ JournalFrame

\* days the clock of the long-journal specification runs
MaxJournalDays == 2

\* the journal after n daily calls, the last of them on day d
DailyJournal(n, d) ==
    [entries |-> [i \in 1..n |-> [date |-> d + 1 - i, fallback |-> FALSE]],
     currentStreak |-> n,
     totalEntries |-> n]

\* a journal kept daily for the 29 or 30 days before the clock starts is in
\* the store (days are counted from the day the clock starts)
InitJournalFull ==
    /\ InitCalls
    /\ InitHandlers
    /\ env = DevEnv
    /\ now = 0
    /\ \E n \in {MAX_ENTRIES - 1, MAX_ENTRIES} :
           kv = [k \in Keys |->
                    IF k = JournalKey
                    THEN [present |-> TRUE,
                          value |-> JournalToJson(DailyJournal(n, DateOf(now) - 1)),
                          expiration |-> NoExpiry]
                    ELSE Absent]

NextJournalFull ==
    \/ \E p \in SeqProcs : AddJournalEntry(p)
    \/ \E p \in SeqProcs : JournalGet(p)
    \/ \E p \in SeqProcs, answered \in BOOLEAN : JournalAI(p, answered)
    \/ \E p \in SeqProcs : JournalPut(p)
    \/ \E p \in SeqProcs : JournalPutRejects(p)
    \/ Advance(MsPerDay, MaxJournalDays * MsPerDay)

SpecJournalFull == InitJournalFull /\ [][NextJournalFull]_vars

----------------------------------------------------------------------------
(* postTweet: the OAuth 1.0a signature and the Authorization header.  A     *)
(* string is the sequence of its characters.                                *)

Lower ==
    {"a", "b", "c", "d", "e", "f", "g", "h", "i", "j", "k", "l", "m", "n",
     "o", "p", "q", "r", "s", "t", "u", "v", "w", "x", "y", "z"}

Upper ==
    {"A", "B", "C", "D", "E", "F", "G", "H", "I", "J", "K", "L", "M", "N",
     "O", "P", "Q", "R", "S", "T", "U", "V", "W", "X", "Y", "Z"}

Digits == {"0", "1", "2", "3", "4", "5", "6", "7", "8", "9"}

\* what encodeURIComponent leaves as it is: A-Z a-z 0-9 - _ . ! ~ * ' ( )
UriUnescaped ==
    Lower \cup Upper \cup Digits \cup {"-", "_", ".", "!", "~", "*", "'", "(", ")"}

\* the two hexadecimal digits of the other characters used here
HexOf(c) ==
    CASE c = " " -> <<"2", "0">>
      [] c = "%" -> <<"2", "5">>
      [] c = "&" -> <<"2", "6">>
      [] c = "+" -> <<"2", "B">>
      [] c = "/" -> <<"2", "F">>
      [] c = ":" -> <<"3", "A">>
      [] c = "=" -> <<"3", "D">>

\* what encodeURIComponent writes for one character
EncodedChar(c) == IF c \in UriUnescaped THEN <<c>> ELSE <<"%">> \o HexOf(c)

\* encodeURIComponent: the encodings of the characters, in order (the text
\* is halved rather than walked, which keeps the evaluation shallow)
RECURSIVE encodeURIComponent(_)
encodeURIComponent(str) ==
    IF Len(str) = 0 THEN <<>>
    ELSE IF Len(str) = 1 THEN EncodedChar(str[1])
    ELSE encodeURIComponent(SubSeq(str, 1, Len(str) \div 2))
         \o encodeURIComponent(SubSeq(str, Len(str) \div 2 + 1, Len(str)))

\* Array.prototype.join
RECURSIVE join(_, _)
join(strs, sep) ==
    IF Len(strs) = 0 THEN <<>>
    ELSE IF Len(strs) = 1 THEN strs[1]
    ELSE strs[1] \o sep \o join(Tail(strs), sep)

\* the names of the OAuth parameters
oauth_consumer_key ==
    <<"o", "a", "u", "t", "h", "_", "c", "o", "n", "s", "u", "m", "e", "r",
      "_", "k", "e", "y">>

oauth_nonce == <<"o", "a", "u", "t", "h", "_", "n", "o", "n", "c", "e">>

oauth_signature ==
    <<"o", "a", "u", "t", "h", "_", "s", "i", "g", "n", "a", "t", "u", "r",
      "e">>

oauth_signature_method ==
    <<"o", "a", "u", "t", "h", "_", "s", "i", "g", "n", "a", "t", "u", "r",
      "e", "_", "m", "e", "t", "h", "o", "d">>

oauth_timestamp ==
    <<"o", "a", "u", "t", "h", "_", "t", "i", "m", "e", "s", "t", "a", "m",
      "p">>

oauth_token == <<"o", "a", "u", "t", "h", "_", "t", "o", "k", "e", "n">>

oauth_version ==
    <<"o", "a", "u", "t", "h", "_", "v", "e", "r", "s", "i", "o", "n">>

\* `const url = "https://api.twitter.com/2/tweets"`
url ==
    <<"h", "t", "t", "p", "s", ":", "/", "/", "a", "p", "i", ".", "t", "w",
      "i", "t", "t", "e", "r", ".", "c", "o", "m", "/", "2", "/", "t", "w",
      "e", "e", "t", "s">>

\* the order of the UTF-16 code units of the characters of the names
CodeUnitOrder ==
    <<"_", "a", "b", "c", "d", "e", "f", "g", "h", "i", "j", "k", "l", "m",
      "n", "o", "p", "q", "r", "s", "t", "u", "v", "w", "x", "y", "z">>

CodeUnit(c) == CHOOSE i \in 1..Len(CodeUnitOrder) : CodeUnitOrder[i] = c

\* the comparison Array.prototype.sort makes without a comparator: by code units
RECURSIVE Precedes(_, _)
Precedes(a, b) ==
    IF a = <<>> THEN b # <<>>
    ELSE IF b = <<>> THEN FALSE
    ELSE IF Head(a) = Head(b) THEN Precedes(Tail(a), Tail(b))
    ELSE CodeUnit(Head(a)) < CodeUnit(Head(b))

\* one name put at its place in a sorted list of names
RECURSIVE Insert(_, _)
Insert(k, sorted) ==
    IF sorted = <<>> THEN <<k>>
    ELSE IF Precedes(k, Head(sorted)) THEN <<k>> \o sorted
    ELSE <<Head(sorted)>> \o Insert(k, Tail(sorted))

\* mutant: the names are left in the order of insertion
unsorted(keys) == keys

\* `Object.keys(paramsForSig).sort()`
RECURSIVE sort(_)
sort(keys) == IF keys = <<>> THEN <<>> ELSE Insert(Head(keys), sort(Tail(keys)))

\* the characters of a decimal number: `Math.floor(Date.now() / 1000).toString()`
DigitChars == <<"0", "1", "2", "3", "4", "5", "6", "7", "8", "9">>

decimal(n) == [i \in 1..Len(toString(n)) |-> DigitChars[toString(n)[i] + 1]]

ParamNames ==
    {oauth_consumer_key, oauth_nonce, oauth_signature_method, oauth_timestamp,
     oauth_token, oauth_version}

\* `const oauthParams = {oauth_consumer_key: env.TWITTER_API_KEY, ...}`
oauthParams(e, nonce, t) ==
    [k \in ParamNames |->
        CASE k = oauth_consumer_key -> e.TWITTER_API_KEY
          [] k = oauth_nonce -> nonce
          [] k = oauth_signature_method -> <<"H", "M", "A", "C", "-", "S", "H", "A", "1">>
          [] k = oauth_timestamp -> decimal(t \div 1000)
          [] k = oauth_token -> e.TWITTER_ACCESS_TOKEN
          [] k = oauth_version -> <<"1", ".", "0">>]

\* the order in which the object literal inserts the names
LiteralOrder ==
    <<oauth_consumer_key, oauth_nonce, oauth_signature_method, oauth_timestamp,
      oauth_token, oauth_version>>

\* `Object.keys(paramsForSig).sort().map(k => enc(k) + "=" + enc(v)).join("&")`
paramString(params, keys) ==
    LET sorted == sort(keys)
    IN  join([i \in 1..Len(sorted) |->
                 encodeURIComponent(sorted[i]) \o <<"=">>
                     \o encodeURIComponent(params[sorted[i]])],
             <<"&">>)

\* `["POST", encodeURIComponent(url), encodeURIComponent(paramString)].join("&")`
baseString(paramStr) ==
    join(<<<<"P", "O", "S", "T">>, encodeURIComponent(url),
           encodeURIComponent(paramStr)>>, <<"&">>)

\* `encodeURIComponent(env.TWITTER_API_SECRET) + "&" + encodeURIComponent(env.TWITTER_ACCESS_SECRET)`
signingKey(e) ==
    encodeURIComponent(e.TWITTER_API_SECRET) \o <<"&">>
        \o encodeURIComponent(e.TWITTER_ACCESS_SECRET)

\* the digest, character by character, in the base64 alphabet: inputs that
\* differ in a letter, a digit, a "%" or a "&" have different digests
DigestChar(c) ==
    IF c \in Lower \cup Upper \cup Digits THEN c
    ELSE IF c = "%" THEN "+"
    ELSE IF c = "&" THEN "/"
    ELSE "="

DigestChars(str) == [i \in 1..Len(str) |-> DigestChar(str[i])]

\* hmacSha1Base64(key, data): a base64 text that is a function of key and
\* data, with the characters "+", "/" and "=" base64 texts contain
hmacSha1Base64(key, data) ==
    DigestChars(key) \o <<"+">> \o DigestChars(data) \o <<"/", "=">>

\* the seven pairs of the Authorization header, in the order of the array literal
HeaderPairs(params, signature) ==
    <<<<oauth_consumer_key, params[oauth_consumer_key]>>,
      <<oauth_nonce, params[oauth_nonce]>>,
      <<oauth_signature, signature>>,
      <<oauth_signature_method, params[oauth_signature_method]>>,
      <<oauth_timestamp, params[oauth_timestamp]>>,
      <<oauth_token, params[oauth_token]>>,
      <<oauth_version, params[oauth_version]>>>>

\* `"OAuth " + [...].map(([k, v]) => `${enc(k)}="${enc(v)}"`).join(", ")`
authHeader(params, signature) ==
    LET pairs == HeaderPairs(params, signature)
    IN  <<"O", "A", "u", "t", "h", " ">>
        \o join([i \in 1..Len(pairs) |->
                    encodeURIComponent(pairs[i][1]) \o <<"=", "\"">>
                        \o encodeURIComponent(pairs[i][2]) \o <<"\"">>],
                <<",", " ">>)

\* what postTweet computes between the duplicate guard and the fetch, for
\* the text t, the nonce randomHex gave, the clock t0 and the order keys in
\* which the parameter names were inserted
Signed(e, t, nonce, t0, keys) ==
    LET params == oauthParams(e, nonce, t0)
        paramStr == paramString(params, keys)
        baseStr == baseString(paramStr)
        signature == hmacSha1Base64(signingKey(e), baseStr)
    IN  [fn |-> "postTweet",
         nonce |-> nonce,
         timestamp |-> params[oauth_timestamp],
         keys |-> keys,
         paramString |-> paramStr,
         baseString |-> baseStr,
         signingKey |-> signingKey(e),
         signature |-> signature,
         authHeader |-> authHeader(params, signature),
         body |-> t]

\* postTweet signs the request for the text t: randomHex gives nonce, the
\* clock gives the timestamp, keys is the order of `Object.keys(paramsForSig)`
Sign(p, t, nonce, keys) ==
    /\ oauth' = [oauth EXCEPT ![p] = Signed(env, t, nonce, now, keys)]
    /\ UNCHANGED <<now, kv, pc, job, text, replyTo, queue, result, repliedList,
                   netCalls, checkedAt, overtaken, lastSuccess, guarded, posted,
                   replied, jobs, env, request, response, cache, journal,
                   outbox, cron>>

\* secrets: one whose reserved character encodeURIComponent escapes, one
\* with a character encodeURIComponent leaves alone
SecretValues == {<<"a", "+", "b">>, <<"a", "!", "b">>}

OAuthEnvs ==
    [TWITTER_API_KEY : {<<"k", "+">>},
     TWITTER_API_SECRET : SecretValues,
     TWITTER_ACCESS_TOKEN : {<<"1", "-", "t">>},
     TWITTER_ACCESS_SECRET : {<<"s">>}]

\* values of randomHex, shortened
Nonces == {<<"0", "a">>, <<"f", "f">>}

\* the order in which the object literal inserts the names, and its reverse
InsertionOrders ==
    {LiteralOrder,
     [i \in 1..Len(LiteralOrder) |-> LiteralOrder[Len(LiteralOrder) + 1 - i]]}

\* the clock of the signing specification: two instants of one second, and
\* one of the next
MaxTimeOAuth == 1000

OAuthClockStep == MaxTimeOAuth \div 2

InitOAuth == InitPosting /\ InitHandlers /\ env \in OAuthEnvs

NextOAuth ==
    \/ \E p \in Procs, t \in Texts, nonce \in Nonces, keys \in InsertionOrders :
           Sign(p, t, nonce, keys)
    \/ Advance(OAuthClockStep, MaxTimeOAuth)

SpecOAuth == InitOAuth /\ [][NextOAuth]_vars

----------------------------------------------------------------------------
(* The callers of postTweet build the text: the length limit *)

\* `finalTweet.length > 280`
TweetLimit == 280

\* `finalTweet.slice(0, 277)`
KeptLength == 277

\* String.prototype.slice(0, n)
slice(str, n) == SubSeq(str, 1, IF n < Len(str) THEN n ELSE Len(str))

\* mutant: the text is handed over as it was built
untruncatedTweet(finalTweet) == finalTweet

\* `finalTweet.length > 280 ? finalTweet.slice(0, 277) + '...' : finalTweet`,
\* the same expression in runScheduledTweet, runDFWWeatherTweet,
\* runEveningDFWWeatherTweet, runGoodNightTweet, runDrunkAITweet and (as
\* finalReply) in replyToMention
truncatedTweet(finalTweet) ==
    IF Len(finalTweet) > TweetLimit
    THEN slice(finalTweet, KeptLength) \o "..."
    ELSE finalTweet

\* `const tweetPayload = { text }`, with `reply.in_reply_to_tweet_id` for a reply
tweetPayload(t, r) == [text |-> t, in_reply_to_tweet_id |-> r]

\* the functions that build a tweet and call postTweet(env, truncatedTweet)
TweetCallers ==
    {"runScheduledTweet", "runDFWWeatherTweet", "runEveningDFWWeatherTweet",
     "runGoodNightTweet", "runDrunkAITweet"}

\* a text of n characters
RECURSIVE TextOfLength(_)
TextOfLength(n) ==
    IF n = 0 THEN ""
    ELSE IF n = 1 THEN "a"
    ELSE TextOfLength(n \div 2) \o TextOfLength(n - n \div 2)

\* the texts the callers build: short, just below the limit, at the limit,
\* just over it and well over it
FinalTweets ==
    {TextOfLength(n) : n \in {1, TweetLimit - 1, TweetLimit, TweetLimit + 1,
                              TweetLimit + 20}}

\* one of the tweet functions has built finalTweet and calls
\* postTweet(env, truncatedTweet)
RunTweet(p, caller, finalTweet) ==
    /\ pc[p] = "idle"
    /\ jobs < MaxJobs
    /\ jobs' = jobs + 1
    /\ job' = [job EXCEPT ![p] = "tweet"]
    /\ outbox' = [outbox EXCEPT ![p] =
                     [fn |-> caller, finalTweet |-> finalTweet, sent |-> FALSE,
                      body |-> tweetPayload("", NoReply)]]
    /\ PostTweetEntry(p, truncatedTweet(finalTweet), NoReply)
    /\ UNCHANGED <<now, kv, queue, repliedList, lastSuccess, guarded, posted,
                   replied, env, request, response, cache, journal, oauth, cron>>

\* replyToMention has built replyTweet and calls
\* postTweet(env, finalReply, mention.id)
ReplyWith(p, replyTweet) ==
    /\ pc[p] = "replyToMention"
    /\ outbox' = [outbox EXCEPT ![p] =
                     [fn |-> "replyToMention", finalTweet |-> replyTweet,
                      sent |-> FALSE,
                      body |-> tweetPayload("", NoReply)]]
    /\ PostTweetEntry(p, truncatedTweet(replyTweet), Head(queue[p]))
    /\ UNCHANGED <<now, kv, job, queue, repliedList, lastSuccess, guarded, posted,
                   replied, jobs, env, request, response, cache, journal, oauth,
                   cron>>

\* the step Fetch, with the body of the request:
\* fetch(url, {method: "POST", ..., body: JSON.stringify(tweetPayload)})
FetchBody(p) ==
    /\ pc[p] = "fetch"
    /\ netCalls' = [netCalls EXCEPT ![p] = netCalls[p] + 1]
    /\ pc' = [pc EXCEPT ![p] = "response"]
    /\ outbox' = [outbox EXCEPT ![p].sent = TRUE,
                                ![p].body = tweetPayload(text[p], replyTo[p])]
    /\ UNCHANGED <<now, kv, job, text, replyTo, queue, result, repliedList,
                   checkedAt, overtaken, lastSuccess, guarded, posted, replied,
                   jobs, env, request, response, cache, journal, oauth, cron>>

\* the store has a key for the guard of every text a caller may hand over
InitLength ==
    /\ InitCalls
    /\ InitHandlers
    /\ env = DevEnv
    /\ now = 0
    /\ kv = [k \in Keys \cup {recentTweetKey(truncatedTweet(f)) : f \in FinalTweets}
                |-> Absent]

NextLength ==
    \/ \E p \in SeqProcs, c \in TweetCallers, f \in FinalTweets : RunTweet(p, c, f)
    \/ \E p \in SeqProcs : TweetJobEnds(p)
    \/ \E p \in SeqProcs : MentionCheck(p)
    \/ \E p \in SeqProcs, S \in SUBSET Mentions : GetRecentMentions(p, S)
    \/ \E p \in SeqProcs, f \in FinalTweets : ReplyWith(p, f)
    \/ \E p \in SeqProcs : ReplyOutcome(p)
    \/ \E p \in SeqProcs : MarkGet(p)
    \/ \E p \in SeqProcs : MarkPut(p)
    \/ \E p \in SeqProcs : RateCheck(p)
    \/ \E p \in SeqProcs : DedupCheck(p)
    \/ \E p \in SeqProcs : DedupPut(p)
    \/ \E p \in SeqProcs : FetchBody(p)
    \/ \E p \in SeqProcs, o \in Outcomes : Response(p, o)
    \/ Advance(thirtyMinutes, MaxTime)

SpecLength == InitLength /\ [][NextLength]_vars

----------------------------------------------------------------------------
(* scheduled: the cron handler *)

\* the clock of the cron specification stops at 23:45 of its one day
MaxTimeCron == 85500000

\* "For all other cron triggers (every 15 minutes)"
CronStep == 15 * 60 * 1000

\* `now.getUTCHours()` and `now.getUTCMinutes()`
getUTCHours(t) == (t \div (60 * 60 * 1000)) % 24

getUTCMinutes(t) == (t \div (60 * 1000)) % 60

\* `now.getMonth()`: January is 0
Months == 0..11

\* Math.random(), in hundredths
Chances == {0, 32, 33, 99}

\* `drunkChance < 0.33`, in hundredths
DrunkShare == 33

\* `now.getMonth() >= 2 && now.getMonth() <= 10`
isDST(month) == month >= 2 /\ month <= 10

\* `isDST ? 7 : 8`
drunkHourUTC(month) == IF isDST(month) THEN 7 ELSE 8

\* the test in front of the mention check: a scheduled tweet time
SkipTestNoDrunkHour(hour, minute, month) ==
    \/ hour = 12 /\ minute = 0
    \/ hour = 19 /\ minute = 0
    \/ hour = 2 /\ minute = 30

SkipMentionCheck(hour, minute, month) ==
    \/ hour = 12 /\ minute = 0
    \/ hour = 19 /\ minute = 0
    \/ hour = 2 /\ minute = 30
    \/ hour = drunkHourUTC(month) /\ minute = 0

\* one `if (cond) { ctx.waitUntil(job); return; }` of the handler, applied to
\* what the handler has started so far
WaitUntilAndReturn(c, cond, startedJob) ==
    IF ~c.returned /\ cond
    THEN [c EXCEPT !.started = Append(@, startedJob), !.returned = TRUE]
    ELSE c

\* one `if (cond) return;`
ReturnIf(c, cond) == IF ~c.returned /\ cond THEN [c EXCEPT !.returned = TRUE] ELSE c

\* the body of scheduled(), top to bottom
scheduled(hour, minute, month, drunkChance) ==
    LET c0 == [fn |-> "scheduled", hour |-> hour, minute |-> minute,
               month |-> month, drunkChance |-> None,
               started |-> <<>>, returned |-> FALSE]
        c1 == WaitUntilAndReturn(c0, hour = 11 /\ minute = 30, "refreshCache")
        c2 == WaitUntilAndReturn(c1, hour = 12 /\ minute = 0, "runDFWWeatherTweet")
        c3 == WaitUntilAndReturn(c2, hour = 19 /\ minute = 0, "runScheduledTweet")
        c4 == WaitUntilAndReturn(c3, hour = 2 /\ minute = 30, "runGoodNightTweet")
        drawn == ~c4.returned /\ hour = drunkHourUTC(month) /\ minute = 0
        c5 == IF drawn THEN [c4 EXCEPT !.drunkChance = drunkChance] ELSE c4
        c6 == WaitUntilAndReturn(c5, drawn /\ drunkChance < DrunkShare,
                                 "runDrunkAITweet")
        c7 == ReturnIf(c6, SkipMentionCheck(hour, minute, month))
    IN  WaitUntilAndReturn(c7, TRUE, "checkAndReplyToMentions")

\* what the cron actions leave alone
CronFrame ==
    UNCHANGED <<now, kv, pc, job, text, replyTo, queue, result, repliedList,
                netCalls, checkedAt, overtaken, lastSuccess, guarded, posted,
                replied, jobs, env, request, response, cache, journal, oauth,
                outbox>>

\* the cron trigger fires and scheduled() runs to its end
Scheduled(p, month, drunkChance) ==
    /\ cron[p] = NoCron
    /\ cron' = [cron EXCEPT ![p] =
                   scheduled(getUTCHours(now), getUTCMinutes(now), month, drunkChance)]
    /\ CronFrame

\* the invocation is over
ScheduledEnds(p) ==
    /\ cron[p] # NoCron
    /\ cron' = [cron EXCEPT ![p] = NoCron]
    /\ CronFrame

NextCron ==
    \/ \E p \in SeqProcs, month \in Months, drunkChance \in Chances :
           Scheduled(p, month, drunkChance)
    \/ \E p \in SeqProcs : ScheduledEnds(p)
    \/ Advance(CronStep, MaxTimeCron)

SpecCron == Init /\ [][NextCron]_vars

----------------------------------------------------------------------------
(* runScheduledTweet: the daily tweet and its journal entry *)

\* runScheduledTweet has its finalTweet and calls postTweet(env, truncatedTweet)
RunScheduledTweet(p, finalTweet) ==
    /\ pc[p] = "idle"
    /\ job[p] = "none"
    /\ jobs < MaxJobs
    /\ jobs' = jobs + 1
    /\ job' = [job EXCEPT ![p] = "daily"]
    /\ PostTweetEntry(p, truncatedTweet(finalTweet), NoReply)
    /\ UNCHANGED <<now, kv, queue, repliedList, lastSuccess, guarded, posted,
                   replied>>
    /\ UNCHANGED handlerVars

\* `const res = await postTweet(...)` has its result; the try block that
\* follows calls addJournalEntry(env, insights, `Daily reflection: ...`)
DailyJournalEntry(p) ==
    /\ job[p] = "daily"
    /\ pc[p] = "returned"
    /\ journal' = [journal EXCEPT ![p] = [fn |-> "addJournalEntry"]]
    /\ pc' = [pc EXCEPT ![p] = "journalGet"]
    /\ UNCHANGED <<now, kv, jobs>>
    /\ JournalFrame

\* addJournalEntry is over, or postTweet threw and the outer catch has it:
\* runScheduledTweet returns
RunScheduledTweetEnds(p) ==
    /\ job[p] = "daily"
    /\ pc[p] \in {"idle", "thrown"}
    /\ Finished(p)
    /\ UNCHANGED <<now, kv, lastSuccess, guarded, posted, replied, jobs>>
    /\ UNCHANGED handlerVars

NextDaily ==
    \/ \E p \in SeqProcs, t \in Texts : RunScheduledTweet(p, t)
    \/ \E p \in SeqProcs : PostTweetStep(p)
    \/ \E p \in SeqProcs : DailyJournalEntry(p)
    \/ \E p \in SeqProcs : JournalGet(p)
    \/ \E p \in SeqProcs, answered \in BOOLEAN : JournalAI(p, answered)
    \/ \E p \in SeqProcs : JournalPut(p)
    \/ \E p \in SeqProcs : JournalPutRejects(p)
    \/ \E p \in SeqProcs : RunScheduledTweetEnds(p)
    \/ Advance(thirtyMinutes, MaxTime)

SpecDaily == Init /\ [][NextDaily]_vars

----------------------------------------------------------------------------
(* Properties *)

\* the minimum interval between non-reply posts, as the specification states it
MinInterval == 30 * 60 * 1000

\* the retention window of a duplicate guard, as the specification states it
RetentionWindow == 2 * 60 * 60 * 1000

\* invocation p leaves the await it was suspended at
Steps(p) == pc'[p] # pc[p]

\* postTweet rejects p's call at one of its two checks
Rejected(p) == pc[p] \in {"rateCheck", "dedupCheck"} /\ pc'[p] = "returned"

\* the tweet endpoint answers p's request with a 2xx
Accepted(p) == pc[p] = "response" /\ pc'[p] = "returned" /\ result'[p].ok

\* the tweet endpoint answers p's request with a 429 or a 5xx
Refused(p) ==
    /\ pc[p] = "response"
    /\ pc'[p] = "returned"
    /\ result'[p].status \in {429} \cup (500..599)

C2_DuplicateWhateverRateLimit ==
    [][\A p \in Procs :
          (/\ pc[p] \in {"rateCheck", "dedupCheck"}
           /\ Steps(p)
           /\ text[p] \in posted
           /\ now < RetentionWindow) =>
              /\ pc'[p] # "dedupPut"
              /\ pc'[p] = "returned" => result'[p] = Duplicate]_vars

\* C2 (amended): such a call never gets past the duplicate check and makes no
\* network call; it is rejected with the duplicate error at the duplicate
\* check, or before that as rate-limited when it is a non-reply call made
\* less than 30 minutes after the last successful non-reply post.
C2_RejectedAsDuplicateOrRateLimited ==
    [][\A p \in Procs :
          (/\ pc[p] \in {"rateCheck", "dedupCheck"}
           /\ Steps(p)
           /\ text[p] \in posted
           /\ now < RetentionWindow) =>
              /\ pc'[p] \in {"dedupCheck", "returned"}
              /\ pc'[p] = "dedupCheck" => pc[p] = "rateCheck"
              /\ pc'[p] = "returned" =>
                    /\ netCalls'[p] = 0
                    /\ \/ result'[p] = Duplicate /\ pc[p] = "dedupCheck"
                       \/ /\ result'[p] = RateLimited
                          /\ pc[p] = "rateCheck"
                          /\ replyTo[p] = NoReply
                          /\ lastSuccess # None
                          /\ now - lastSuccess < MinInterval]_vars

\* C2 witness: a non-reply call with an already posted text, made after the
\* rate limit had run out, was rejected as a duplicate.
C2_Witness ==
    \E p \in Procs :
        /\ job[p] = "tweet"
        /\ pc[p] = "returned"
        /\ result[p] = Duplicate
        /\ text[p] \in posted
        /\ checkedAt[p] - lastSuccess >= MinInterval

\* C3 (as claimed): a mention gets at most one successful reply.
C3_AtMostOneReplyPerMention ==
    [][\A p \in Procs :
          (Accepted(p) /\ replyTo[p] # NoReply) => replyTo[p] \notin replied]_vars

\* C4 (as claimed): a non-reply post is accepted only if the last accepted
\* non-reply post lies at least 30 minutes back.
C4_AcceptedPostsThirtyMinutesApart ==
    [][\A p \in Procs :
          (Accepted(p) /\ replyTo[p] = NoReply /\ lastSuccess # None) =>
              now - lastSuccess >= MinInterval]_vars

\* C4 (amended): the same, for a call whose rate check came after the last
\* success had been recorded; a call that made its rate check before another
\* call's success was recorded is not held back by it.
C4_ApartUnlessOvertaken ==
    [][\A p \in Procs :
          (/\ Accepted(p)
           /\ replyTo[p] = NoReply
           /\ lastSuccess # None
           /\ ~overtaken[p]) =>
              now - lastSuccess >= MinInterval]_vars

\* C4 witness: a second non-reply post is in flight, rate-checked 30 minutes
\* or more after the success before it.
C4_Witness ==
    \E p \in Procs :
        /\ replyTo[p] = NoReply
        /\ pc[p] = "response"
        /\ netCalls[p] = 1
        /\ ~overtaken[p]
        /\ lastSuccess # None
        /\ checkedAt[p] - lastSuccess >= MinInterval

\* calls that are past the duplicate check
PassedDedup == {"dedupPut", "fetch", "response"}

\* C5 (as claimed): of two calls with the same text running at the same
\* time, at most one gets past the duplicate check.
C5_AtMostOnePassesDedup ==
    \A p, q \in Procs :
        (p # q /\ text[p] = text[q] /\ pc[p] \in PassedDedup) =>
            pc[q] \notin PassedDedup

\* C5 (amended): a call whose duplicate lookup comes after the guard for its
\* text has been written, within the retention window, is rejected as a
\* duplicate and makes no network call.
C5_RejectedOnceGuardWritten ==
    [][\A p \in Procs :
          (/\ pc[p] = "dedupCheck"
           /\ Steps(p)
           /\ text[p] \in guarded
           /\ now < RetentionWindow) =>
              /\ pc'[p] = "returned"
              /\ result'[p] = Duplicate
              /\ netCalls'[p] = 0]_vars

\* C5 witness: while one call is sending its text, a second call with the
\* same text has been rejected as a duplicate.
C5_Witness ==
    \E p, q \in Procs :
        /\ p # q
        /\ text[p] = text[q]
        /\ pc[p] \in {"fetch", "response"}
        /\ pc[q] = "returned"
        /\ result[q] = Duplicate

\* C6: a reply never goes through the rate check and is never rejected as
\* rate-limited.
C6_ReplyBypassesRateLimit ==
    \A p \in Procs :
        replyTo[p] # NoReply =>
            /\ pc[p] # "rateCheck"
            /\ checkedAt[p] = None
            /\ result[p] # RateLimited

\* C6 witness: within 30 minutes of a successful non-reply post, a reply to
\* one mention was posted and a reply with another text to another mention
\* has reached the network call.
C6_Witness ==
    \E p \in Procs :
        /\ now < MinInterval
        /\ lastSuccess # None
        /\ replied # {}
        /\ replyTo[p] \notin replied \cup {NoReply}
        /\ pc[p] = "response"
        /\ netCalls[p] = 1
        /\ Cardinality(posted) = 2
        /\ text[p] \notin posted

\* C7: when the endpoint answers 429 or 5xx, the result has ok = false and
\* the store is left as it was (the duplicate guard stays, the timestamp is
\* not written); the caller of a failed reply then leaves the store alone
\* too and does not mark the mention as replied.
C7_UpstreamErrorKeepsBookkeeping ==
    [][\A p \in Procs :
          /\ Refused(p) =>
                /\ ~result'[p].ok
                /\ kv' = kv
                /\ now < RetentionWindow => kv'[recentTweetKey(text[p])].present
                /\ lastSuccess' = lastSuccess
          /\ (pc[p] = "returned" /\ ~result[p].ok /\ Steps(p)) =>
                /\ pc'[p] \notin {"markGet", "markPut"}
                /\ kv' = kv]_vars

\* C7 witness: a reply was answered 503; its guard is in the store.
C7_Witness ==
    \E p \in Procs :
        /\ replyTo[p] # NoReply
        /\ pc[p] = "returned"
        /\ result[p] = UpstreamError(503)
        /\ kv[recentTweetKey(text[p])].present

\* C8 (as claimed): postTweet never throws.
C8_PostTweetNeverThrows == \A p \in Procs : pc[p] # "thrown"

\* C9 (as claimed): on a 2xx for a non-reply post the stored timestamp is the
\* time at which the call was rate-checked.
C9_TimestampOfRateCheck ==
    [][\A p \in Procs :
          (Accepted(p) /\ replyTo[p] = NoReply) =>
              /\ kv'[LastTweetKey].present
              /\ parseInt(kv'[LastTweetKey].value) = checkedAt[p]]_vars

\* C9 (amended): the stored timestamp is the time at which the 2xx answer is
\* handled, which is never before the time of the rate check.
C9_TimestampOfSuccess ==
    [][\A p \in Procs :
          (Accepted(p) /\ replyTo[p] = NoReply) =>
              /\ kv'[LastTweetKey].present
              /\ kv'[LastTweetKey].value = toString(now)
              /\ parseInt(kv'[LastTweetKey].value) = now
              /\ checkedAt[p] <= now]_vars

\* C9 witness: a non-reply post succeeded some time after its rate check and
\* the store holds the time of the success.
C9_Witness ==
    \E p \in Procs :
        /\ replyTo[p] = NoReply
        /\ pc[p] = "returned"
        /\ result[p].ok
        /\ kv[LastTweetKey].present
        /\ parseInt(kv[LastTweetKey].value) = now
        /\ checkedAt[p] < now

\* C10: a call rejected at the rate check or at the duplicate check leaves
\* the store as it was and makes no network call.
C10_RejectionChangesNothing ==
    [][\A p \in Procs :
          Rejected(p) =>
              /\ kv' = kv
              /\ netCalls'[p] = 0
              /\ ~result'[p].ok]_vars

\* C10 witness: a reply has been rejected as a duplicate; the guard it ran
\* into is in the store.
C10_Witness ==
    \E p \in Procs :
        /\ replyTo[p] # NoReply
        /\ pc[p] = "returned"
        /\ result[p] = Duplicate
        /\ netCalls[p] = 0
        /\ kv[recentTweetKey(text[p])].present

\* C11: a postTweet call makes at most one request to the tweet endpoint: none
\* when it is rejected at the rate check or the duplicate check, exactly one
\* once it is past both checks and has sent; whatever the answer, the call
\* then ends (returns or throws) and does not send again.
C11_AtMostOneNetworkCall ==
    [][\A p \in Procs :
          /\ netCalls'[p] <= 1
          /\ Rejected(p) => netCalls'[p] = 0
          /\ (pc[p] = "fetch" /\ Steps(p)) =>
                (netCalls[p] = 0 /\ netCalls'[p] = 1 /\ pc'[p] = "response")
          /\ (pc[p] = "response" /\ Steps(p)) =>
                (netCalls'[p] = 1 /\ pc'[p] \in {"returned", "thrown"})]_vars

\* C11 witness: a call got a 503 and returned after its single request.
C11_Witness ==
    \E p \in Procs :
        /\ pc[p] = "returned"
        /\ result[p] = UpstreamError(503)
        /\ netCalls[p] = 1

\* GET /api/tweet?debug=true
DebugGet(req) == req.pathname = "/api/tweet" /\ req.method = "GET" /\ req.debug

\* C12 (as claimed): while GET /api/tweet?debug=true is handled, no step of
\* the handling writes the store (no duplicate guard, no last-tweet
\* timestamp) and no request is sent to the tweet endpoint.
C12_DebugGetPostsNothing ==
    [][\A p \in Procs :
          (DebugGet(request[p]) /\ Steps(p)) =>
              /\ kv' = kv
              /\ netCalls'[p] = 0]_vars

\* ADMIN_USERNAME and ADMIN_PASSWORD are configured
AdminConfigured == env.ADMIN_USERNAME # EmptyString /\ env.ADMIN_PASSWORD # EmptyString

\* the request carries the Basic header of the configured credentials
HasValidBasic(req) ==
    req.authorization = Basic(env.ADMIN_USERNAME \o <<":">> \o env.ADMIN_PASSWORD)

\* C13 (as claimed): with admin credentials configured, a tweet job runs for
\* a request only if the request carries valid Basic credentials; any other
\* request to a tweet route is answered without a job.
C13_NoTweetJobWithoutBasicAuth ==
    AdminConfigured =>
        \A p \in Procs :
            (request[p] # NoRequest /\ ~HasValidBasic(request[p])) =>
                /\ job[p] # "tweet"
                /\ netCalls[p] = 0

\* the user-id and the password of Basic credentials: what stands before the
\* first colon, and everything after it
FirstColon(c) == CHOOSE i \in 1..Len(c) : c[i] = ":" /\ \A j \in 1..(i - 1) : c[j] # ":"

\* the header is a Basic header whose decoded user-id and password are
\* exactly the configured ones
ExactCredentials(h) ==
    /\ h.scheme = "Basic"
    /\ IsBase64(h.payload)
    /\ LET c == atob(h.payload)
       IN  /\ \E i \in 1..Len(c) : c[i] = ":"
           /\ SubSeq(c, 1, FirstColon(c) - 1) = env.ADMIN_USERNAME
           /\ SubSeq(c, FirstColon(c) + 1, Len(c)) = env.ADMIN_PASSWORD

\* C14 (as claimed): with admin credentials configured, a request is let
\* through exactly when its Basic header decodes to the configured username
\* and password; every other request gets the 401 challenge and the
\* protected handler does not run for it.
C14_GrantedIffExactCredentials ==
    AdminConfigured =>
        \A p \in Procs :
            request[p] # NoRequest =>
                IF ExactCredentials(request[p].authorization)
                THEN response[p].status # 401
                ELSE /\ response[p].status = 401
                     /\ response[p].wwwAuthenticate = "Basic realm=\"GPT Enduser Admin\""
                     /\ job[p] # "tweet"

\* the age from which the cache is stale, as the documentation states it
SixHours == 6 * 60 * 60 * 1000

\* cache_last_update is missing, or six hours old or older
CacheStale ==
    \/ ~kv[CacheLastUpdateKey].present
    \/ now - parseInt(kv[CacheLastUpdateKey].value) >= SixHours

StoredJournal == getJournal(kv, now)

\* the days that have an entry
EntryDays(j) == {j.entries[i].date : i \in 1..Len(j.entries)}

\* the number of consecutive days, ending with day d, that are in days
RECURSIVE ConsecutiveDays(_, _)
ConsecutiveDays(days, d) ==
    IF d \in days THEN 1 + ConsecutiveDays(days, d - 1) ELSE 0

\* C17 (as claimed): whenever the journal has an entry for today,
\* currentStreak is the number of consecutive days, ending with today, that
\* have an entry.
C17_StreakCountsConsecutiveDays ==
    DateOf(now) \in EntryDays(StoredJournal) =>
        StoredJournal.currentStreak = ConsecutiveDays(EntryDays(StoredJournal), DateOf(now))

\* C18 (as claimed): when addJournalEntry stores the journal, totalEntries
\* has grown by one if the day had no entry yet and has not grown if the
\* day's entry was replaced.
C18_TotalEntriesCountsEntries ==
    [][\A p \in Procs :
          (pc[p] = "journalPut" /\ Steps(p)) =>
              getJournal(kv', now').totalEntries =
                  StoredJournal.totalEntries
                  + (IF journal[p].today \in EntryDays(StoredJournal) THEN 0 ELSE 1)]_vars

\* the unreserved URI characters
Unreserved == Lower \cup Upper \cup Digits \cup {"-", ".", "_", "~"}

OnlyChars(str, allowed) == \A i \in 1..Len(str) : str[i] \in allowed

\* C19: in the parameter string, the base string, the signing key and the
\* Authorization header, every character of every key and value other than
\* an unreserved URI character is percent-escaped: outside the delimiters
\* the code writes, the four texts hold unreserved characters and "%" only
C19_OnlyUnreservedUnescaped ==
    \A p \in Procs :
        oauth[p].fn = "postTweet" =>
            /\ OnlyChars(oauth[p].paramString, Unreserved \cup {"%", "=", "&"})
            /\ OnlyChars(oauth[p].baseString, Unreserved \cup {"%", "&"})
            /\ OnlyChars(oauth[p].signingKey, Unreserved \cup {"%", "&"})
            /\ OnlyChars(oauth[p].authHeader,
                         Unreserved \cup {"%", "=", "\"", ",", " "})

\* key=value with both sides percent-encoded
KeyValue(k, v) == encodeURIComponent(k) \o <<"=">> \o encodeURIComponent(v)

\* the six pairs of evaluation p in ascending order of their keys, joined by "&"
SortedPairs(p) ==
    join(<<KeyValue(oauth_consumer_key, env.TWITTER_API_KEY),
           KeyValue(oauth_nonce, oauth[p].nonce),
           KeyValue(oauth_signature_method,
                    <<"H", "M", "A", "C", "-", "S", "H", "A", "1">>),
           KeyValue(oauth_timestamp, oauth[p].timestamp),
           KeyValue(oauth_token, env.TWITTER_ACCESS_TOKEN),
           KeyValue(oauth_version, <<"1", ".", "0">>)>>, <<"&">>)

\* C20: for fixed credentials, nonce and timestamp, the parameter string
\* (the pairs sorted by key, joined as key=value with "&"), the base string,
\* the signature and the Authorization header are the same on every
\* evaluation, whatever the tweet text and the order of insertion
C20_SignatureIsDeterministic ==
    \A p \in Procs :
        oauth[p].fn = "postTweet" =>
            /\ oauth[p].paramString = SortedPairs(p)
            /\ \A q \in Procs :
                   (/\ oauth[q].fn = "postTweet"
                    /\ oauth[q].nonce = oauth[p].nonce
                    /\ oauth[q].timestamp = oauth[p].timestamp)
                   => /\ oauth[q].paramString = oauth[p].paramString
                      /\ oauth[q].baseString = oauth[p].baseString
                      /\ oauth[q].signature = oauth[p].signature
                      /\ oauth[q].authHeader = oauth[p].authHeader

C20_Witness ==
    \E p, q \in Procs :
        /\ oauth[p].fn = "postTweet"
        /\ oauth[q].fn = "postTweet"
        /\ oauth[p].nonce = oauth[q].nonce
        /\ oauth[p].timestamp = oauth[q].timestamp
        /\ oauth[p].body # oauth[q].body
        /\ oauth[p].keys # oauth[q].keys
        /\ oauth[p].keys # LiteralOrder
        /\ oauth[p].authHeader = oauth[q].authHeader
        /\ oauth[p].signature = oauth[q].signature

\* the awaits of postTweet and its end
InPostTweet ==
    {"rateCheck", "dedupCheck", "dedupPut", "fetch", "response", "returned",
     "thrown"}

\* C21: the text a built-in caller hands to postTweet has at most 280
\* characters: a text of up to 280 characters is handed over as built, a
\* longer one as its first 277 characters followed by "..."; postTweet
\* writes its guard under the fingerprint of that very text and sends that
\* very text.
C21_CallersTruncateAndPostTweetSendsAsGiven ==
    /\ \A t \in guarded : Len(t) <= 280
    /\ \A p \in Procs :
          (outbox[p].fn # "none" /\ pc[p] \in InPostTweet) =>
              LET built == outbox[p].finalTweet
              IN  /\ Len(text[p]) <= 280
                  /\ Len(built) <= 280 => text[p] = built
                  /\ Len(built) > 280 =>
                        /\ Len(text[p]) = 280
                        /\ SubSeq(text[p], 1, 277) = SubSeq(built, 1, 277)
                        /\ SubSeq(text[p], 278, 280) = "..."
                  /\ pc[p] \in {"fetch", "response"} =>
                        /\ text[p] \in guarded
                        /\ kv[<<"recent_tweet_", text[p]>>].present
                  /\ outbox[p].sent =>
                        /\ outbox[p].body.text = text[p]
                        /\ outbox[p].body.in_reply_to_tweet_id = replyTo[p]

\* C21 witness: a reply built with more than 280 characters was sent with
\* exactly 280 and accepted.
C21_Witness ==
    \E p \in Procs :
        /\ outbox[p].fn = "replyToMention"
        /\ Len(outbox[p].finalTweet) > 280
        /\ outbox[p].sent
        /\ Len(outbox[p].body.text) = 280
        /\ pc[p] = "returned"
        /\ result[p].ok

\* the place of an await in the order Requested, RateChecked, DedupChecked,
\* Sending, ended: a non-reply call is Requested at "rateCheck" and
\* RateChecked at "dedupCheck"; a reply, which skips the rate check, is
\* Requested at "dedupCheck"; a call is DedupChecked at "dedupPut" and
\* "fetch" and Sending at "response"
Rank(at) ==
    CASE at = "rateCheck" -> 1
      [] at = "dedupCheck" -> 2
      [] at = "dedupPut" -> 3
      [] at = "fetch" -> 4
      [] at = "response" -> 5
      [] at \in {"returned", "thrown"} -> 6
      [] OTHER -> 0

\* p's attempt is under way
Attempting(p) == Rank(pc[p]) \in 1..5

\* C22: an attempt moves forward only, through Requested, RateChecked,
\* DedupChecked and Sending, and ends once, as Succeeded or as Failed: the
\* duplicate lookup comes after a passed rate check or, for a reply, first;
\* the network call comes after both checks have passed and the guard is
\* written; no state is entered twice; every attempt ends.
C22_AttemptMovesForwardAndEnds ==
    /\ [][\A p \in Procs :
             /\ (Attempting(p) /\ Steps(p)) =>
                   /\ Rank(pc'[p]) > Rank(pc[p])
                   /\ Rank(pc'[p]) \in {Rank(pc[p]) + 1, 6}
                   /\ text'[p] = text[p]
                   /\ replyTo'[p] = replyTo[p]
             /\ (~Attempting(p) /\ Rank(pc'[p]) \in 1..5) =>
                   pc'[p] = IF replyTo'[p] = NoReply THEN "rateCheck"
                            ELSE "dedupCheck"
             /\ (pc[p] = "rateCheck" /\ pc'[p] = "dedupCheck") =>
                   ~IsRateLimited(KVGet(kv, LastTweetKey, now), now)
             /\ (pc[p] = "dedupCheck" /\ Steps(p)) =>
                   (replyTo[p] = NoReply <=> checkedAt[p] # None)
             /\ netCalls'[p] # netCalls[p] =>
                   \/ ~Attempting(p) /\ netCalls'[p] = 0
                   \/ /\ pc[p] = "fetch"
                      /\ pc'[p] = "response"
                      /\ text[p] \in guarded
             /\ (Rank(pc[p]) = 6 /\ Steps(p)) => Rank(pc'[p]) # 6
             /\ (Rank(pc'[p]) = 6 /\ Steps(p)) =>
                   /\ result'[p].ok => (pc[p] = "response" /\ pc'[p] = "returned")
                   /\ Rank(pc[p]) < 5 => (pc'[p] = "returned" /\ ~result'[p].ok)]_vars
    /\ \A p \in Procs : Attempting(p) ~> Rank(pc[p]) = 6

\* C22 witness: one attempt has Succeeded while the other, a reply that went
\* through every state, has Failed.
C22_Witness ==
    \E p, q \in Procs :
        /\ pc[p] = "returned"
        /\ result[p].ok
        /\ replyTo[q] # NoReply
        /\ pc[q] = "returned"
        /\ netCalls[q] = 1
        /\ ~result[q].ok

\* the guard of p's text can be read from the store
GuardReadable(store, t, at) == Truthy(KVGet(store, <<"recent_tweet_", t>>, at))

\* C23: an attempt that has passed both checks writes the guard of its text
\* before it issues the network call: the step that leads to the call is
\* the write of the guard, and whenever the call is about to be issued, is
\* issued or is under way, the guard is in the store.
C23_GuardWrittenBeforeNetworkCall ==
    [][\A p \in Procs :
          /\ (pc'[p] = "fetch" /\ Steps(p)) =>
                /\ pc[p] = "dedupPut"
                /\ netCalls[p] = 0
                /\ kv'[<<"recent_tweet_", text[p]>>]
                       = [present |-> TRUE, value |-> ToISOString(now),
                          expiration |-> now + RetentionWindow]
          /\ netCalls'[p] > netCalls[p] =>
                /\ pc[p] = "fetch"
                /\ text[p] \in guarded
                /\ GuardReadable(kv, text[p], now)
          /\ pc'[p] \in {"fetch", "response"} =>
                GuardReadable(kv', text'[p], now')]_vars

\* C23 witness: the guard of a text is in the store and the network call for
\* it has not been issued yet.
C23_Witness ==
    \E p \in Procs :
        /\ pc[p] = "fetch"
        /\ netCalls[p] = 0
        /\ posted = {}
        /\ GuardReadable(kv, text[p], now)

\* C24: a guard expires 2 hours after it was written and a rejected attempt
\* does not refresh it: the guard is written with the time of the write plus
\* 2 hours as its expiry, it changes only when an attempt that passed the
\* duplicate check writes it or when the clock reaches its expiry, and an
\* attempt passes the duplicate check exactly when there is no guard for its
\* text or the clock has reached the guard's expiry.
C24_GuardExpiresAfterRetentionWindow ==
    [][\A p \in Procs :
          LET key == <<"recent_tweet_", text[p]>>
          IN  /\ (pc[p] = "dedupPut" /\ Steps(p)) =>
                    /\ kv'[key].present
                    /\ kv'[key].expiration = now + RetentionWindow
              /\ Rejected(p) => kv' = kv
              /\ (pc[p] = "dedupCheck" /\ Steps(p)) =>
                    /\ pc'[p] \in {"dedupPut", "returned"}
                    /\ pc'[p] = "returned" => result'[p] = Duplicate
                    /\ pc'[p] = "dedupPut" <=>
                          (kv[key].present => now >= kv[key].expiration)
              /\ (text[p] # NoText /\ kv'[key] # kv[key]) =>
                    \/ \E q \in Procs :
                          pc[q] = "dedupPut" /\ Steps(q) /\ text[q] = text[p]
                    \/ /\ kv[key].present
                       /\ now' >= kv[key].expiration
                       /\ ~kv'[key].present]_vars

\* C24 witness: a text was posted at time 0; after a reply with the same
\* text was rejected, a second reply with it passes the duplicate check
\* exactly 2 hours after the guard was written.
C24_Witness ==
    \E p \in Procs :
        /\ now = RetentionWindow
        /\ pc[p] = "dedupPut"
        /\ text[p] \in guarded
        /\ posted = {text[p]}
        /\ lastSuccess = 0
        /\ replyTo[p] # NoReply
        /\ Len(queue[p]) = 1
        /\ replied = {}

\* the life of the stored timestamp
TimestampLife == 60 * 60 * 1000

\* C25 (as claimed): the timestamp of the last successful non-reply post has
\* no expiry: from that post on it can be read from the store.
C25_TimestampNeverExpires ==
    lastSuccess # None =>
        KVGet(kv, LastTweetKey, now) = [found |-> TRUE, value |-> toString(lastSuccess)]

\* C25 (amended): the timestamp can be read, with the time of the last
\* successful non-reply post, for one hour after that post and is gone
\* after that; it changes only when a non-reply post succeeds or when the
\* hour is over, and never when a post fails.  The hour is longer than the
\* 30 minutes of the rate limit, so the rate check gives the verdict it
\* would give without the expiry.
C25_TimestampLivesOneHour ==
    [][/\ (lastSuccess' # None /\ now' < lastSuccess' + TimestampLife) =>
              KVGet(kv', LastTweetKey, now')
                  = [found |-> TRUE, value |-> toString(lastSuccess')]
       /\ (lastSuccess' # None /\ now' >= lastSuccess' + TimestampLife) =>
              ~KVGet(kv', LastTweetKey, now').found
       /\ kv'[LastTweetKey] # kv[LastTweetKey] =>
              \/ \E p \in Procs : Accepted(p) /\ replyTo[p] = NoReply
              \/ /\ now' >= lastSuccess + TimestampLife
                 /\ ~kv'[LastTweetKey].present
       /\ \A p \in Procs :
              /\ (Steps(p) /\ pc'[p] \in {"returned", "thrown"} /\ ~result'[p].ok) =>
                    kv'[LastTweetKey] = kv[LastTweetKey]
              /\ (pc[p] = "rateCheck" /\ Steps(p)) =>
                    (result'[p] = RateLimited <=>
                        (lastSuccess # None /\ now - lastSuccess < MinInterval))]_vars

\* C25 witness: an hour after the last successful non-reply post the
\* timestamp is gone, and a non-reply call has passed its rate check.
C25_Witness ==
    \E p \in Procs :
        /\ lastSuccess # None
        /\ now >= lastSuccess + TimestampLife
        /\ ~kv[LastTweetKey].present
        /\ replyTo[p] = NoReply
        /\ pc[p] = "dedupCheck"
        /\ checkedAt[p] = now

\* C26: a successful reply leaves the stored timestamp as it was, absent or
\* with the value it had, so a non-reply call made after replies only is
\* not rate-limited.
C26_ReplyLeavesTimestampAlone ==
    [][\A p \in Procs :
          /\ (Accepted(p) /\ replyTo[p] # NoReply) =>
                /\ kv'[LastTweetKey] = kv[LastTweetKey]
                /\ lastSuccess' = lastSuccess
          /\ (pc[p] = "rateCheck" /\ Steps(p) /\ ~kv[LastTweetKey].present) =>
                pc'[p] = "dedupCheck"
          /\ (replied # {} /\ lastSuccess = None) => ~kv[LastTweetKey].present]_vars

\* C26 witness: a reply has been posted, no timestamp is stored, and a
\* non-reply call made after it has passed the rate check.
C26_Witness ==
    \E p \in Procs :
        /\ replied # {}
        /\ ~kv[LastTweetKey].present
        /\ lastSuccess = None
        /\ job[p] = "tweet"
        /\ pc[p] = "dedupCheck"
        /\ now < MinInterval

\* C27 (as claimed): the stored journal holds at most 30 entries.
C27_AtMostThirtyEntries == Len(StoredJournal.entries) <= 30

\* C28 (as claimed): the stored journal holds at most one entry per
\* calendar date.
C28_OneEntryPerDate ==
    \A i, j \in 1..Len(StoredJournal.entries) :
        StoredJournal.entries[i].date = StoredJournal.entries[j].date => i = j

\* the scheduled tweet times of C29, for a firing c
AtScheduledTweetTime(c) ==
    \/ c.hour = 12 /\ c.minute = 0
    \/ c.hour = 19 /\ c.minute = 0
    \/ c.hour = 2 /\ c.minute = 30
    \/ c.hour = (IF c.month >= 2 /\ c.month <= 10 THEN 7 ELSE 8) /\ c.minute = 0

\* the jobs a firing has started
StartedJobs(c) == {c.started[i] : i \in 1..Len(c.started)}

\* C29: a cron firing starts at most one job, and at a scheduled tweet time
\* (12:00, 19:00, 02:30, the drunk-tweet hour at minute 0) it does not start
\* the mention check, also when the drunk-tweet draw fails and no tweet job
\* is started.
C29_OneJobAndNoMentionCheckAtTweetTime ==
    \A p \in Procs :
        cron[p] # NoCron =>
            /\ Len(cron[p].started) <= 1
            /\ AtScheduledTweetTime(cron[p]) =>
                   "checkAndReplyToMentions" \notin StartedJobs(cron[p])

\* the firing at the drunk-tweet hour whose draw failed: nothing is started
C29_Witness ==
    \E p \in Procs :
        /\ cron[p] # NoCron
        /\ cron[p].hour = drunkHourUTC(cron[p].month)
        /\ cron[p].minute = 0
        /\ cron[p].drunkChance >= DrunkShare
        /\ cron[p].started = <<>>

\* C30 (as claimed): while the postTweet result of a runScheduledTweet call
\* is not a success (rate-limited, duplicate, upstream failure), the stored
\* journal (entries, streak, totalEntries) does not change.
C30_JournalOnlyAfterSuccess ==
    [][\A p \in Procs :
          job[p] = "daily" /\ ~result[p].ok =>
              getJournal(kv', now') = getJournal(kv, now)]_vars

====
